---- MODULE Spec2Model ----
(***************************************************************************)
(* Healing control loop of docker-autoheal: the state store               *)
(* (ConfigManager), the sweep of the MonitoringEngine with its restart    *)
(* scheduler and quarantine handling, and the Uptime-Kuma poller that     *)
(* restarts containers on a DOWN status.                                  *)
(*                                                                         *)
(* Scheduling: one asyncio event loop runs the sweep, the poller and the  *)
(* admin handlers; a coroutine runs atomically between two awaits.  The   *)
(* sweep's restart RPC runs in a worker thread (asyncio.to_thread), the   *)
(* poller's restart RPC is a blocking call made on the loop itself.       *)
(*                                                                         *)
(* Time: the store and the engine compare "now" with a recorded instant   *)
(* only through "elapsed < cooldown_seconds"; the model keeps the elapsed *)
(* time, saturated at the configured threshold.                           *)
(***************************************************************************)
EXTENDS Integers, Sequences, FiniteSets, TLC

\* ------------------------------------------------------------------ bounds
\* largest value a persistent restart counter is driven to
MaxCount == 2
\* largest backoff delay after which the runtime no longer fails a restart
MaxBackoff == 2
\* number of times a container is re-created under a new runtime id
MaxGen == 2
\* largest number of ids in one selection request
MaxRequest == 2
\* number of events that are logged
MaxEvents == 5

\* ------------------------------------------------------------- identities
StableIds == {"app_api"}

None == "none"

\* a time or a delay that has no value
Never == 0 - 1

\* container name of the container whose stable identifier is s
NameOf(s) == IF s = "app_api" THEN "api-1" ELSE s

\* runtime id of generation g of the container whose stable identifier is s
RuntimeId(s, g) == s \o "#" \o ToString(g)

\* the first 12 characters of a runtime id
ShortId(cid) == "short:" \o cid

\* the label keys the program reads, and one it does not know
LabelKeys ==
  {"monitoring.id", "com.docker.compose.project",
   "com.docker.compose.service", "autoheal", "tier"}

\* labels of the container whose stable identifier is s; None: no label
LabelsOf(s) ==
  [k \in LabelKeys |->
     IF s = "app_api"
     THEN CASE k = "com.docker.compose.project" -> "app"
            [] k = "com.docker.compose.service" -> "api"
            [] k = "autoheal" -> "true"
            [] OTHER -> None
     ELSE None]

\* DockerClientWrapper.get_container_info of generation g of container s
get_container_info(s, g) ==
  [full_id |-> RuntimeId(s, g), id |-> ShortId(RuntimeId(s, g)),
   name |-> NameOf(s), labels |-> LabelsOf(s)]

\* truth value of an optional string: absent and empty are false
Truthy(v) == v # None /\ v # ""

\* variant: the compose labels take priority over monitoring.id
get_stable_identifier_compose_first(info) ==
  IF /\ Truthy(info.labels["com.docker.compose.project"])
     /\ Truthy(info.labels["com.docker.compose.service"])
  THEN info.labels["com.docker.compose.project"] \o "_" \o
       info.labels["com.docker.compose.service"]
  ELSE IF info.labels["monitoring.id"] # None
       THEN info.labels["monitoring.id"]
  ELSE info.name

\* MonitoringEngine.get_stable_identifier: the monitoring.id label when
\* present, else project_service when both compose labels are non-empty,
\* else the container name
get_stable_identifier(info) ==
  IF info.labels["monitoring.id"] # None
  THEN info.labels["monitoring.id"]
  ELSE IF /\ Truthy(info.labels["com.docker.compose.project"])
          /\ Truthy(info.labels["com.docker.compose.service"])
       THEN info.labels["com.docker.compose.project"] \o "_" \o
            info.labels["com.docker.compose.service"]
  ELSE info.name

\* what an inspection reports: State.Status, State.ExitCode, health.status
ContainerStates ==
  { [status |-> "running", exit_code |-> 0,   health |-> "healthy"],
    [status |-> "running", exit_code |-> 0,   health |-> "unhealthy"],
    [status |-> "exited",  exit_code |-> 137, health |-> None],
    [status |-> "exited",  exit_code |-> 0,   health |-> None] }

FailedState == [status |-> "exited", exit_code |-> 137, health |-> None]

\* --------------------------------------------------------- configurations
\* restart section of the configuration document; the multiplier is the
\* rational mult_num / mult_den
RestartConfigs ==
  [ mode : {"both"},
    cooldown_seconds : {0, 1},
    max_restarts : {1, 2, 3},
    window_seconds : {1},
    backoff_enabled : BOOLEAN,
    initial_seconds : {1},
    mult_num : {2},
    mult_den : {1},
    respect_manual_stop : {TRUE} ]

VARIABLES
  config,          \* ConfigManager._config: the configuration document
  event_log,       \* ConfigManager._event_log
  quarantined,     \* ConfigManager._quarantined_containers
  maintenance,     \* ConfigManager._maintenance_mode
  last_restart,    \* MonitoringEngine._last_restart_times, as elapsed time
  backoff_delays,  \* MonitoringEngine._backoff_delays (0: no entry)
  containers,      \* the runtime: state and generation of each container
  sweep,           \* position and locals of the sweep coroutine
  uk,              \* position and locals of the Uptime-Kuma poller
  admin,           \* configuration snapshot held by an admin handler
  scan,            \* the startup scan: position, snapshot, containers left
  call,            \* the last call of a store or filter operation
  recorded,        \* history: record_restart calls since the last clear
  custom_health_checks,
      \* ConfigManager._custom_health_checks: key -> <<check>> or <<>>
  round,
      \* one pass of _check_containers over its list, and the pass before
  files,
      \* the data directory: each file's text, and the file being written
  attempts,
      \* history: the delay slept before the last restart, and how it ended
  observe,         \* history: whether issued and burst are recorded
  issued,          \* history: time since the last restart RPC was issued
  burst            \* history: restart events of the current window

vars == <<attempts, files, round, custom_health_checks, config, event_log, quarantined, maintenance, last_restart,
          backoff_delays, containers, sweep, uk, admin, scan, call,
          recorded, observe, issued, burst>>

\* ------------------------------------------------------------ state store
\* variant: a window of 0 seconds counts nothing
get_restart_count_windowed(cfg, id, window_seconds) ==
  IF window_seconds = 0 THEN 0 ELSE cfg.restart_counts[id]

\* ConfigManager.get_restart_count: the total count, the window is ignored
get_restart_count(cfg, id, window_seconds) ==
  cfg.restart_counts[id]

\* ConfigManager.get_total_restart_count
get_total_restart_count(cfg, id) ==
  cfg.restart_counts[id]

\* ConfigManager.record_restart: a missing entry starts at 0, then += 1
record_restart(cfg, id) ==
  [cfg EXCEPT !.restart_counts[id] = @ + 1]

\* ConfigManager.clear_restart_history: the entry is deleted (reads 0)
clear_restart_history(cfg, id) ==
  [cfg EXCEPT !.restart_counts[id] = 0]

\* ConfigManager.quarantine_container
quarantine_container(q, id) == q \cup {id}

\* variant: releasing an id that is not quarantined quarantines it
unquarantine_container_toggle(q, id) ==
  IF id \in q THEN q \ {id} ELSE q \cup {id}

\* ConfigManager.unquarantine_container
unquarantine_container(q, id) == q \ {id}

\* variant: a store that never reports a container as quarantined
is_quarantined_never(q, id) == FALSE

\* ConfigManager.is_quarantined
is_quarantined(q, id) == id \in q

\* the last n elements of a sequence: log[-n:] for n >= 1
LastN(log, n) ==
  IF Len(log) <= n THEN log ELSE SubSeq(log, Len(log) - n + 1, Len(log))

\* ConfigManager.add_event: append, then keep the newest max_log_entries
add_event(log, cfg, event) ==
  LET appended == Append(log, event)
      max_entries == cfg.max_log_entries
  IN IF Len(appended) > max_entries THEN LastN(appended, max_entries)
     ELSE appended

\* AutoHealEvent, without timestamp and message
Event(type, id, count, status) ==
  [event_type |-> type, stable_id |-> id, restart_count |-> count,
   status |-> status]

\* ------------------------------------------------------- identity, filter
InSeq(x, seq) == \E i \in DOMAIN seq : seq[i] = x

\* label com.docker.compose.service of the container, None when absent
ComposeService(s) == LabelsOf(s)["com.docker.compose.service"]

\* whether labels carry the configured enrollment label:
\* label_key in labels and labels[label_key] == label_value
HasEnrollmentLabel(cfg, labels) ==
  /\ labels[cfg.label_key] # None
  /\ labels[cfg.label_key] = cfg.label_value

\* fnmatch.fnmatch(name, pattern) on the patterns of the model: "*"
\* matches every name, "api-*" the names that start with api-, any
\* other pattern only itself
FnMatch(name, pattern) ==
  \/ pattern = "*"
  \/ pattern = "api-*" /\ name \in {"api-1", "api-2"}
  \/ pattern = name

\* a label filter {key: value} matches: labels.get(key) == value
LabelFilterMatches(labels, f) == labels[f.key] = f.value

\* variant: a list is searched for the runtime ids only
Listed_by_runtime_id(info, list) ==
  \/ InSeq(info.full_id, list)
  \/ InSeq(info.id, list)

\* the identifiers of the container under which a list may hold it
Listed(info, list) ==
  \/ InSeq(get_stable_identifier(info), list)
  \/ InSeq(info.full_id, list)
  \/ InSeq(info.id, list)
  \/ InSeq(info.name, list)
  \/ /\ Truthy(info.labels["com.docker.compose.service"])
     /\ InSeq(info.labels["com.docker.compose.service"], list)

\* variant: an empty whitelist of names lets no container pass
PassesFilters_whitelist_required(cfg, info) ==
  /\ cfg.include_all \/ HasEnrollmentLabel(cfg, info.labels)
  /\ ~\E i \in DOMAIN cfg.blacklist_names :
        FnMatch(info.name, cfg.blacklist_names[i])
  /\ \E i \in DOMAIN cfg.whitelist_names :
        FnMatch(info.name, cfg.whitelist_names[i])
  /\ ~\E i \in DOMAIN cfg.blacklist_labels :
        LabelFilterMatches(info.labels, cfg.blacklist_labels[i])
  /\ \/ cfg.whitelist_labels = <<>>
     \/ \E i \in DOMAIN cfg.whitelist_labels :
          LabelFilterMatches(info.labels, cfg.whitelist_labels[i])

\* lines 268-312: include_all or the enrollment label, then the name and
\* label blacklists and whitelists
PassesFilters(cfg, info) ==
  /\ cfg.include_all \/ HasEnrollmentLabel(cfg, info.labels)
  /\ ~\E i \in DOMAIN cfg.blacklist_names :
        FnMatch(info.name, cfg.blacklist_names[i])
  /\ \/ cfg.whitelist_names = <<>>
     \/ \E i \in DOMAIN cfg.whitelist_names :
          FnMatch(info.name, cfg.whitelist_names[i])
  /\ ~\E i \in DOMAIN cfg.blacklist_labels :
        LabelFilterMatches(info.labels, cfg.blacklist_labels[i])
  /\ \/ cfg.whitelist_labels = <<>>
     \/ \E i \in DOMAIN cfg.whitelist_labels :
          LabelFilterMatches(info.labels, cfg.whitelist_labels[i])

\* variant: the selection is tested before the exclusion
should_monitor_container_selected_first(cfg, info) ==
  IF Listed(info, cfg.selected) THEN TRUE
  ELSE IF Listed(info, cfg.excluded) THEN FALSE
  ELSE PassesFilters(cfg, info)

\* MonitoringEngine.should_monitor_container: exclusion, then selection,
\* then include_all or the enrollment label and the filters
should_monitor_container(cfg, info) ==
  IF Listed(info, cfg.excluded) THEN FALSE
  ELSE IF Listed(info, cfg.selected) THEN TRUE
  ELSE PassesFilters(cfg, info)

\* MonitoringEngine._check_single_container, lines 200-207: the key under
\* which the container is found in quarantine (stable id, name, runtime id)
QuarantineId(q, s, cid) ==
  IF is_quarantined(q, s) THEN s
  ELSE IF is_quarantined(q, NameOf(s)) THEN NameOf(s)
  ELSE IF is_quarantined(q, cid) THEN cid
  ELSE None

\* UptimeKumaMonitor.should_restart_from_uptime_kuma: mapped, enabled,
\* auto_restart_on_down and the cached status is DOWN
should_restart_from_uptime_kuma(cfg, s, cached_down) ==
  /\ cfg.uk_enabled
  /\ s \in cfg.uk_mappings
  /\ cfg.auto_restart_on_down
  /\ cached_down

\* variant: a stopped container is restarted whatever its exit code
evaluate_container_health_any_exit(info, restart, custom, external) ==
  IF info.status = "starting" THEN FALSE
  ELSE IF /\ info.status \in {"exited", "stopped", "dead"}
          /\ restart.mode \in {"on-failure", "both"}
       THEN TRUE
  ELSE IF /\ restart.mode \in {"health", "both"}
          /\ (custom = "fail" \/ info.health = "unhealthy")
       THEN TRUE
  ELSE external

\* MonitoringEngine._evaluate_container_health; custom is the outcome of
\* the custom health check ("none" when no check is configured),
\* external the verdict of the Uptime-Kuma monitor
evaluate_container_health(info, restart, custom, external) ==
  IF info.status = "starting" THEN FALSE
  ELSE IF /\ info.status \in {"exited", "stopped", "dead"}
          /\ restart.mode \in {"on-failure", "both"}
       THEN ~(info.exit_code = 0 /\ restart.respect_manual_stop)
  ELSE IF /\ restart.mode \in {"health", "both"}
          /\ (custom = "fail" \/ info.health = "unhealthy")
       THEN TRUE
  ELSE external

\* variant: the product rounded up
NextBackoff_rounded_up(delay, restart) ==
  (delay * restart.mult_num + restart.mult_den - 1) \div restart.mult_den

\* int(backoff_delay * multiplier)
NextBackoff(delay, restart) == (delay * restart.mult_num) \div restart.mult_den

\* self._backoff_delays.get(stable_id, initial_seconds)
BackoffDelay(delays, s, restart) ==
  IF delays[s] = 0 THEN restart.initial_seconds ELSE delays[s]

\* the cooldown test of _handle_container_restart, lines 502-507
InCooldown(last, s, restart) ==
  /\ last[s] # Never
  /\ last[s] < restart.cooldown_seconds

\* ------------------------------------------------------------- the state
NoInfo == [status |-> None, exit_code |-> 0, health |-> None, cid |-> None]

NoRestart == CHOOSE r \in RestartConfigs : TRUE

\* the sweep before its first container check; needs is the local
\* needs_restart: "unknown" until the evaluator has returned
IdleSweep ==
  [pc |-> "idle", cur |-> None, info |-> NoInfo, qid |-> None,
   needs |-> "unknown", rc |-> 0, delay |-> 0, success |-> FALSE,
   restart |-> NoRestart]

\* the sweep after the check of sw.cur has returned with verdict needs
Returned(sw, needs) ==
  [IdleSweep EXCEPT !.cur = sw.cur, !.qid = sw.qid, !.needs = needs]

\* get_monitor_status_by_name returned None: the fetch failed, or the
\* answer does not hold the monitor
NoStatus == -1

\* the poller between two passes; status is the last answer it acts on
IdlePoller == [pc |-> "idle", cur |-> None, auto |-> FALSE,
               status |-> NoStatus]

\* the poller's task is cancelled, or was never created
StoppedPoller == [IdlePoller EXCEPT !.pc = "stopped"]

\* what the fetch of a monitor's status returns: 0 down, 1 up, 2 pending,
\* 3 maintenance, or nothing
MonitorStatuses == {0, 1, 2, 3, NoStatus}

NoBurst == [count |-> 0, age |-> Never]

\* history: no restart of the stable id has been attempted
NoAttempt == [delay |-> 0, outcome |-> "none"]

\* the keys custom health checks are stored under: POST /api/healthchecks
\* stores under the runtime id, an imported document under any key
HealthCheckKeys == {RuntimeId("app_api", 1), "app_api"}

\* no custom health check is configured
NoChecks == [k \in HealthCheckKeys |-> <<>>]

\* the monitor loop sleeps and has not checked a container yet
NoRound == [pc |-> "sleeping", left |-> <<>>, checked |-> <<>>, last |-> <<>>]

\* no operation has been called
NoCall == [op |-> None]

\* the files ConfigManager persists its state to
FileNames == {"config.json", "events.json", "quarantine.json"}

\* a file whose text is the whole of the JSON document doc
Complete(doc) == [text |-> "complete", doc |-> doc]

\* the data directory after init_defaults, and no write in progress
NoFiles == [writing |-> None, disk |-> [n \in FileNames |-> Complete(<<>>)]]

\* no restart recorded since the last clear: how many, and for which
\* generations of the container
NoRecord == [n |-> 0, gens |-> {}]

\* the startup scan has returned and the start-event listener runs
ScanDone == [pc |-> "listening", config |-> <<>>, pending |-> {}, added |-> 0]

\* the configuration documents the store starts from
InitConfigs ==
  [ restart : {r \in RestartConfigs :
                 /\ r.cooldown_seconds = 1
                 /\ r.max_restarts <= 2
                 /\ r.backoff_enabled},
    restart_counts : {[s \in StableIds |-> 0]},
    selected : {<<>>},
    excluded : {<<>>},
    include_all : {FALSE},
    label_key : {"autoheal"},
    label_value : {"true"},
    whitelist_names : {<<>>},
    blacklist_names : {<<>>},
    whitelist_labels : {<<>>},
    blacklist_labels : {<<>>},
    max_log_entries : {1},
    uk_mappings : {StableIds},
    uk_enabled : {TRUE},
    auto_restart_on_down : {TRUE} ]

\* ConfigManager.__init__ and MonitoringEngine.__init__ on an empty data
\* directory, with every container running and healthy
Init ==
  /\ config \in InitConfigs
  /\ event_log = <<>>
  /\ quarantined = {}
  /\ maintenance = FALSE
  /\ last_restart = [s \in StableIds |-> Never]
  /\ backoff_delays = [s \in StableIds |-> 0]
  /\ containers = [s \in StableIds |->
        [state |-> [status |-> "running", exit_code |-> 0,
                    health |-> "healthy"],
         gen |-> 1]]
  /\ sweep = IdleSweep
  /\ uk = IdlePoller
  /\ admin = <<>>
  /\ scan = ScanDone
  /\ call = NoCall
  /\ attempts = [s \in StableIds |-> NoAttempt]
  /\ files = NoFiles
  /\ round = NoRound
  /\ custom_health_checks = NoChecks
  /\ recorded = [s \in StableIds |-> NoRecord]
  /\ observe = FALSE
  /\ issued = [s \in StableIds |-> Never]
  /\ burst = [s \in StableIds |-> NoBurst]

\* the event loop is not blocked inside the poller's synchronous restart
LoopFree == uk.pc # "rpc"

\* a restart RPC of the sweep for s is in flight (worker thread)
SweepRpcInFlight(s) == sweep.pc = "rpc" /\ sweep.cur = s

\* a restart RPC of the poller for s is in flight (on the loop)
PollerRpcInFlight(s) == uk.pc = "rpc" /\ uk.cur = s

\* history: a restart RPC for s is issued now
Issue(s) ==
  /\ issued' = IF observe THEN [issued EXCEPT ![s] = 0] ELSE issued
  /\ UNCHANGED observe

\* history: the last attempt to restart s is now a
Attempt(s, a) ==
  attempts' = IF observe THEN [attempts EXCEPT ![s] = a] ELSE attempts

\* history: a restart event for s is emitted now
CountRestartEvent(b, window) ==
  IF ~observe THEN b
  ELSE IF b.age = Never \/ b.age >= window
  THEN [count |-> 1, age |-> 0]
  ELSE [b EXCEPT !.count = IF @ <= MaxCount THEN @ + 1 ELSE @]

\* ----------------------------------------------------------- the sweep
\* _check_single_container up to the first await: the maintenance test
\* (line 182), then the inspection is handed to a worker thread
SweepBegin(s) ==
  /\ LoopFree
  /\ sweep.pc = "idle"
  /\ ~maintenance
  /\ sweep' = [IdleSweep EXCEPT !.pc = "inspect", !.cur = s]
  /\ UNCHANGED <<attempts, files, round, custom_health_checks, recorded, scan, call, config, event_log, quarantined, maintenance, last_restart,
                 backoff_delays, containers, uk, admin, observe, issued, burst>>

\* _check_single_container, lines 181-184: in maintenance mode the check
\* of s returns at once
SweepSkipped(s) ==
  /\ LoopFree
  /\ sweep.pc = "idle"
  /\ maintenance
  /\ sweep' = Returned([IdleSweep EXCEPT !.cur = s], "unknown")
  /\ UNCHANGED <<attempts, files, round, custom_health_checks, recorded, scan, call, config,
                 event_log, quarantined, maintenance, last_restart,
                 backoff_delays, containers, uk, admin, observe, issued,
                 burst>>

\* variant: a quarantined container is evaluated in any state
QuarantineCheckEvaluates_any(info) == TRUE

\* line 215: a quarantined container is evaluated only when it is running
QuarantineCheckEvaluates(info) == info.status = "running"

\* lines 189-224: the inspection returns; selection filter and quarantine
\* test; a quarantined container is evaluated only when it is running
SweepInspected ==
  /\ LoopFree
  /\ sweep.pc = "inspect"
  /\ LET s == sweep.cur
         cid == RuntimeId(s, containers[s].gen)
         cinfo == get_container_info(s, containers[s].gen)
         st == containers[s].state
         info == [status |-> st.status, exit_code |-> st.exit_code,
                  health |-> st.health, cid |-> cid]
         qid == QuarantineId(quarantined, s, cid)
     IN sweep' =
          IF ~should_monitor_container(config, cinfo)
          THEN Returned(sweep, "unknown")
          ELSE IF qid # None
          THEN IF QuarantineCheckEvaluates(info)
               THEN [sweep EXCEPT !.pc = "qeval", !.info = info, !.qid = qid]
               ELSE Returned([sweep EXCEPT !.qid = qid], "unknown")
          ELSE [sweep EXCEPT !.pc = "eval", !.info = info]
  /\ UNCHANGED <<attempts, files, round, custom_health_checks, recorded, scan, call, config, event_log, quarantined, maintenance, last_restart,
                 backoff_delays, containers, uk, admin, observe, issued, burst>>

\* variant: a release that leaves the restart counter as it is
AutoUnquarantine_keeps_count(s, qid) ==
  /\ quarantined' = unquarantine_container(quarantined, qid)
  /\ config' = config
  /\ backoff_delays' =
       IF backoff_delays[s] # 0
       THEN [backoff_delays EXCEPT ![s] = config.restart.initial_seconds]
       ELSE backoff_delays
  /\ event_log' = add_event(event_log, config,
                            Event("auto_unquarantine", s, 0, "success"))
  /\ Attempt(s, [attempts[s] EXCEPT !.outcome = "released"])

\* _auto_unquarantine_container, lines 447-467: release, clear the
\* counter, reset an existing backoff entry, log the event
AutoUnquarantine(s, qid) ==
  /\ quarantined' = unquarantine_container(quarantined, qid)
  /\ config' = clear_restart_history(config, s)
  /\ backoff_delays' =
       IF backoff_delays[s] # 0
       THEN [backoff_delays EXCEPT ![s] = config.restart.initial_seconds]
       ELSE backoff_delays
  /\ event_log' = add_event(event_log, config,
                            Event("auto_unquarantine", s, 0, "success"))
  /\ Attempt(s, [attempts[s] EXCEPT !.outcome = "released"])

\* lines 215-224: the evaluation of a quarantined running container
\* returns; healthy releases it, anything else leaves it quarantined
SweepQuarantineEvaluated ==
  /\ LoopFree
  /\ sweep.pc = "qeval"
  /\ \E custom \in {"none", "pass", "fail"}, down \in BOOLEAN :
       LET s == sweep.cur
           needs_restart ==
             evaluate_container_health(sweep.info, config.restart, custom,
               should_restart_from_uptime_kuma(config, s, down))
       IN IF ~needs_restart
          THEN /\ AutoUnquarantine(s, sweep.qid)
               /\ sweep' = Returned(sweep, "no")
          ELSE /\ sweep' = Returned(sweep, "yes")
               /\ UNCHANGED <<quarantined, config, backoff_delays,
                              event_log, attempts>>
  /\ UNCHANGED <<files, round, custom_health_checks, recorded, scan, call, maintenance, last_restart, containers, uk, admin, observe,
                 issued, burst>>

\* variant: the quarantine event is logged, the container is not listed
Quarantine_event_only(s, restart_count) ==
  /\ quarantined' = quarantined
  /\ event_log' = add_event(event_log, config,
                            Event("quarantine", s, restart_count,
                                  "quarantined"))

\* _handle_container_restart, lines 515-540: the counter has reached
\* max_restarts: quarantine and log
Quarantine(s, restart_count) ==
  /\ quarantined' = quarantine_container(quarantined, s)
  /\ event_log' = add_event(event_log, config,
                            Event("quarantine", s, restart_count,
                                  "quarantined"))

\* variant: the threshold test with > in place of >=
OverThreshold_strict(restart_count, restart) ==
  restart_count > restart.max_restarts

\* line 515: the counter has reached the threshold
OverThreshold(restart_count, restart) ==
  restart_count >= restart.max_restarts

\* variant: a verdict dropped in cooldown is logged as a failed restart
CooldownDrop_logged(s) ==
  /\ sweep' = Returned(sweep, "yes")
  /\ event_log' = add_event(event_log, config,
        Event("restart", s, get_total_restart_count(config, s), "failure"))
  /\ UNCHANGED <<attempts, files, quarantined, observe, issued, burst>>

\* lines 501-507: in cooldown the handler returns and nothing else happens
CooldownDrop(s) ==
  /\ sweep' = Returned(sweep, "yes")
  /\ UNCHANGED <<attempts, files, quarantined, event_log, observe, issued, burst>>

\* _handle_container_restart, lines 485-554, up to its first await:
\* cooldown, threshold, then the backoff sleep or the restart RPC
HandleContainerRestart(s) ==
  LET restart == config.restart
      restart_count ==
        get_restart_count(config, s, restart.window_seconds)
  IN IF InCooldown(last_restart, s, restart)
     THEN CooldownDrop(s)
     ELSE IF OverThreshold(restart_count, restart)
     THEN /\ Quarantine(s, restart_count)
          /\ sweep' = Returned(sweep, "yes")
          /\ UNCHANGED <<observe, issued, burst>>
     ELSE IF restart.backoff_enabled
     THEN /\ sweep' = [IdleSweep EXCEPT !.pc = "backoff", !.cur = s,
                         !.needs = "yes",
                         !.rc = restart_count, !.restart = restart,
                         !.delay = BackoffDelay(backoff_delays, s, restart)]
          /\ UNCHANGED <<quarantined, event_log, observe, issued, burst>>
     ELSE /\ sweep' = [IdleSweep EXCEPT !.pc = "rpc", !.cur = s,
                         !.needs = "yes",
                         !.rc = restart_count, !.restart = restart]
          /\ Issue(s)
          /\ UNCHANGED <<quarantined, event_log, burst>>

\* lines 228-231: the evaluation of a container that is not quarantined
\* returns; a positive verdict enters the restart scheduler
SweepEvaluated ==
  /\ LoopFree
  /\ sweep.pc = "eval"
  /\ \E custom \in {"none", "pass", "fail"}, down \in BOOLEAN :
       LET s == sweep.cur
           needs_restart ==
             evaluate_container_health(sweep.info, config.restart, custom,
               should_restart_from_uptime_kuma(config, s, down))
       IN IF needs_restart
          THEN HandleContainerRestart(s)
          ELSE /\ sweep' = Returned(sweep, "no")
               /\ UNCHANGED <<quarantined, event_log, observe, issued, burst>>
  /\ UNCHANGED <<attempts, files, round, custom_health_checks, recorded, scan, call, config, maintenance, last_restart, backoff_delays,
                 containers, uk, admin>>

\* lines 546-554: the backoff sleep is over; the next delay is stored and
\* the restart RPC is handed to a worker thread
SweepBackoffDone ==
  /\ LoopFree
  /\ sweep.pc = "backoff"
  /\ backoff_delays' = [backoff_delays EXCEPT ![sweep.cur] =
                          NextBackoff(sweep.delay, sweep.restart)]
  /\ sweep' = [sweep EXCEPT !.pc = "rpc"]
  /\ Issue(sweep.cur)
  /\ Attempt(sweep.cur, [delay |-> sweep.delay, outcome |-> "pending"])
  /\ UNCHANGED <<files, round, custom_health_checks, recorded, scan, call, config, event_log, quarantined, maintenance, last_restart,
                 containers, uk, admin, burst>>

\* DockerClientWrapper.restart_container in the worker thread: the runtime
\* answers (True) or the call raises and is caught (False)
RestartReturns ==
  /\ sweep.pc = "rpc"
  /\ \E ok \in BOOLEAN :
       /\ ok \/ backoff_delays[sweep.cur] <= MaxBackoff
       /\ sweep' = [sweep EXCEPT !.pc = "rpc_done", !.success = ok]
  /\ UNCHANGED <<attempts, files, round, custom_health_checks, recorded, scan, call, config, event_log, quarantined, maintenance, last_restart,
                 backoff_delays, containers, uk, admin, observe, issued, burst>>

\* lines 557-573: the sweep resumes after the RPC: count, remember the
\* time, log the restart event with restart_count + 1
SweepRecord ==
  /\ LoopFree
  /\ sweep.pc = "rpc_done"
  /\ LET s == sweep.cur
     IN /\ config' = record_restart(config, s)
        /\ last_restart' = [last_restart EXCEPT ![s] = 0]
        /\ event_log' = add_event(event_log, config,
              Event("restart", s, sweep.rc + 1,
                    IF sweep.success THEN "success" ELSE "failure"))
        /\ burst' = [burst EXCEPT ![s] =
              CountRestartEvent(@, config.restart.window_seconds)]
  /\ sweep' = [sweep EXCEPT !.pc = "notify"]
  /\ UNCHANGED <<attempts, files, round, custom_health_checks, recorded, scan, call, quarantined, maintenance, backoff_delays, containers, uk,
                 admin, observe, issued>>

\* lines 575-580: after the notification a successful restart resets the
\* backoff to the initial delay of the snapshot taken at line 485
SweepNotified ==
  /\ LoopFree
  /\ sweep.pc = "notify"
  /\ backoff_delays' =
       IF sweep.success
       THEN [backoff_delays EXCEPT ![sweep.cur] =
               sweep.restart.initial_seconds]
       ELSE backoff_delays
  /\ sweep' = Returned(sweep, "yes")
  /\ Attempt(sweep.cur,
             [attempts[sweep.cur] EXCEPT
                !.outcome = IF sweep.success THEN "success" ELSE "failure"])
  /\ UNCHANGED <<files, round, custom_health_checks, recorded, scan, call, config, event_log, quarantined, maintenance, last_restart,
                 containers, uk, admin, observe, issued, burst>>

\* ------------------------------------------------- the Uptime-Kuma poller
\* variant: the handler without the maintenance test of line 135
MonitorDownRestarts_in_maintenance(cfg, q, m, s, cid, running) ==
  /\ ~is_quarantined(q, s)
  /\ running
  /\ \/ InSeq(s, cfg.selected)
     \/ InSeq(cid, cfg.selected)
     \/ InSeq(ShortId(cid), cfg.selected)
     \/ InSeq(NameOf(s), cfg.selected)
     \/ (ComposeService(s) # None /\ InSeq(ComposeService(s), cfg.selected))
     \/ cfg.include_all
     \/ HasEnrollmentLabel(cfg, LabelsOf(s))

\* _handle_monitor_down, lines 130-187: the tests that precede the restart;
\* running is whether list_containers(all_containers=False) has the
\* container
MonitorDownRestarts(cfg, q, m, s, cid, running) ==
  /\ ~is_quarantined(q, s)
  /\ ~m
  /\ running
  /\ \/ InSeq(s, cfg.selected)
     \/ InSeq(cid, cfg.selected)
     \/ InSeq(ShortId(cid), cfg.selected)
     \/ InSeq(NameOf(s), cfg.selected)
     \/ (ComposeService(s) # None /\ InSeq(ComposeService(s), cfg.selected))
     \/ cfg.include_all
     \/ HasEnrollmentLabel(cfg, LabelsOf(s))

\* _check_all_mappings, lines 104-112: the poller asks the monitor mapped
\* to s for its status and awaits the answer
PollerFetch(s) ==
  /\ LoopFree
  /\ uk.pc = "idle"
  /\ s \in config.uk_mappings
  /\ config.restart_counts[s] < MaxCount
  /\ uk' = [pc |-> "fetch", cur |-> s,
            auto |-> config.auto_restart_on_down, status |-> NoStatus]
  /\ UNCHANGED <<attempts, files, round, custom_health_checks, recorded, scan, call, config, event_log, quarantined, maintenance, last_restart,
                 backoff_delays, containers, sweep, admin, observe, issued, burst>>

\* _check_all_mappings, lines 114-121, and _handle_monitor_down up to
\* container.restart (line 192): the status arrives; on DOWN the handler
\* runs and makes the restart RPC on the event loop
PollerStatusReturns ==
  /\ uk.pc = "fetch"
  /\ \E status \in MonitorStatuses :
       LET s == uk.cur
       IN IF /\ status = 0
             /\ uk.auto
             /\ MonitorDownRestarts(config, quarantined, maintenance, s,
                                    RuntimeId(s, containers[s].gen),
                                    containers[s].state.status = "running")
          THEN /\ uk' = [uk EXCEPT !.pc = "rpc", !.status = status]
               /\ Issue(s)
          ELSE /\ uk' = IdlePoller
               /\ UNCHANGED <<observe, issued>>
  /\ UNCHANGED <<attempts, files, round, custom_health_checks, recorded, scan, call, config, event_log, quarantined, maintenance, last_restart,
                 backoff_delays, containers, sweep, admin, burst>>

\* lines 192-224: container.restart returns (count and log a success) or
\* raises (log a failure)
PollerRestartReturns ==
  /\ uk.pc = "rpc"
  /\ LET s == uk.cur
     IN \E ok \in BOOLEAN :
          IF ok
          THEN /\ config' = record_restart(config, s)
               /\ event_log' = add_event(event_log, config,
                     Event("uptime_kuma_restart", s,
                           get_total_restart_count(config', s), "success"))
               /\ burst' = [burst EXCEPT ![s] =
                     CountRestartEvent(@, config.restart.window_seconds)]
          ELSE /\ event_log' = add_event(event_log, config,
                     Event("uptime_kuma_restart", s,
                           get_total_restart_count(config, s), "failure"))
               /\ UNCHANGED <<config, burst>>
  /\ uk' = IdlePoller
  /\ UNCHANGED <<attempts, files, round, custom_health_checks, recorded, scan, call, quarantined, maintenance, last_restart, backoff_delays,
                 containers, sweep, admin, observe, issued>>

\* ---------------------------------------------------- the admin handlers
\* POST /api/maintenance/enable
EnableMaintenance ==
  /\ LoopFree
  /\ ~maintenance
  /\ maintenance' = TRUE
  /\ UNCHANGED <<attempts, files, round, custom_health_checks, recorded, scan, call, config, event_log, quarantined, last_restart,
                 backoff_delays, containers, sweep, uk, admin, observe, issued, burst>>

\* POST /api/maintenance/disable
DisableMaintenance ==
  /\ LoopFree
  /\ maintenance
  /\ maintenance' = FALSE
  /\ UNCHANGED <<attempts, files, round, custom_health_checks, recorded, scan, call, config, event_log, quarantined, last_restart,
                 backoff_delays, containers, sweep, uk, admin, observe, issued, burst>>

\* POST /api/containers/{id}/unquarantine: release and clear the counter
OperatorUnquarantine(s) ==
  /\ LoopFree
  /\ quarantined' = unquarantine_container(quarantined, s)
  /\ config' = clear_restart_history(config, s)
  /\ UNCHANGED <<attempts, files, round, custom_health_checks, recorded, scan, call, event_log, maintenance, last_restart, backoff_delays,
                 containers, sweep, uk, admin, observe, issued, burst>>

\* POST /api/uptime-kuma/enable up to its await (line 768): the handler
\* takes a copy of the configuration document
AdminGetConfig ==
  /\ LoopFree
  /\ admin = <<>>
  /\ \A s \in StableIds : config.restart_counts[s] < MaxCount
  /\ admin' = <<config>>
  /\ UNCHANGED <<attempts, files, round, custom_health_checks, recorded, scan, call, config, event_log, quarantined, maintenance, last_restart,
                 backoff_delays, containers, sweep, uk, observe, issued, burst>>

\* POST /api/uptime-kuma/enable, lines 771-803: the monitors have been
\* fetched; the copy, with the new mappings, replaces the document, and
\* the poller is stopped and started again
AdminUpdateConfig ==
  /\ LoopFree
  /\ admin # <<>>
  /\ LET mapped == {s \in StableIds :
                       containers[s].state.status = "running"}
     IN config' = [admin[1] EXCEPT !.uk_mappings = mapped,
                                   !.uk_enabled = TRUE,
                                   !.auto_restart_on_down = TRUE]
  /\ admin' = <<>>
  /\ uk' = IdlePoller
  /\ UNCHANGED <<attempts, files, round, custom_health_checks, recorded, scan, call, event_log, quarantined, maintenance, last_restart,
                 backoff_delays, containers, sweep, observe, issued, burst>>

\* ------------------------------------------------------ the environment
\* the container changes state in the runtime
ContainerChanges(s) ==
  /\ \E st \in ContainerStates :
       /\ st # containers[s].state
       /\ containers' = [containers EXCEPT ![s].state = st]
  /\ UNCHANGED <<attempts, files, round, custom_health_checks, recorded, scan, call, config, event_log, quarantined, maintenance, last_restart,
                 backoff_delays, sweep, uk, admin, observe, issued, burst>>

\* the container is removed and created again: new runtime id, same labels
ContainerRecreated(s) ==
  /\ containers[s].gen < MaxGen
  /\ containers' = [containers EXCEPT ![s].gen = @ + 1]
  /\ UNCHANGED <<attempts, files, round, custom_health_checks, recorded, scan, call, config, event_log, quarantined, maintenance, last_restart,
                 backoff_delays, sweep, uk, admin, observe, issued, burst>>

\* elapsed time t, one second later, saturated at limit
Later(t, limit) ==
  IF t = Never THEN Never ELSE IF t < limit THEN t + 1 ELSE t

\* one second passes
Tick ==
  /\ last_restart' = [s \in StableIds |->
        Later(last_restart[s], config.restart.cooldown_seconds)]
  /\ issued' = [s \in StableIds |->
        Later(issued[s], config.restart.cooldown_seconds)]
  /\ burst' = [s \in StableIds |->
        [burst[s] EXCEPT !.age = Later(@, config.restart.window_seconds)]]
  /\ <<last_restart', issued', burst'>> # <<last_restart, issued, burst>>
  /\ UNCHANGED <<attempts, files, round, custom_health_checks, recorded, scan, call, config, event_log, quarantined, maintenance,
                 backoff_delays, containers, sweep, uk, admin, observe>>

Next ==
  \/ \E s \in StableIds : SweepBegin(s)
  \/ \E s \in StableIds : SweepSkipped(s)
  \/ SweepInspected
  \/ SweepQuarantineEvaluated
  \/ SweepEvaluated
  \/ SweepBackoffDone
  \/ RestartReturns
  \/ SweepRecord
  \/ SweepNotified
  \/ \E s \in StableIds : PollerFetch(s)
  \/ PollerStatusReturns
  \/ PollerRestartReturns
  \/ EnableMaintenance
  \/ DisableMaintenance
  \/ \E s \in StableIds : OperatorUnquarantine(s)
  \/ AdminGetConfig
  \/ AdminUpdateConfig
  \/ \E s \in StableIds : ContainerChanges(s)
  \/ \E s \in StableIds : ContainerRecreated(s)
  \/ Tick

Spec == Init /\ [][Next]_vars

\* ------------------------------------------- the loop with its history
\* the same start, with the history of issued RPCs and restart events
InitHistory ==
  /\ config \in InitConfigs
  /\ event_log = <<>>
  /\ quarantined = {}
  /\ maintenance = FALSE
  /\ last_restart = [s \in StableIds |-> Never]
  /\ backoff_delays = [s \in StableIds |-> 0]
  /\ containers = [s \in StableIds |->
        [state |-> [status |-> "running", exit_code |-> 0,
                    health |-> "healthy"],
         gen |-> 1]]
  /\ sweep = IdleSweep
  /\ uk = IdlePoller
  /\ admin = <<>>
  /\ scan = ScanDone
  /\ call = NoCall
  /\ attempts = [s \in StableIds |-> NoAttempt]
  /\ files = NoFiles
  /\ round = NoRound
  /\ custom_health_checks = NoChecks
  /\ recorded = [s \in StableIds |-> NoRecord]
  /\ observe = TRUE
  /\ issued = [s \in StableIds |-> Never]
  /\ burst = [s \in StableIds |-> NoBurst]

\* the sweep, the poller, the operator and the runtime
NextHistory ==
  \/ \E s \in StableIds : SweepBegin(s)
  \/ SweepInspected
  \/ SweepQuarantineEvaluated
  \/ SweepEvaluated
  \/ SweepBackoffDone
  \/ RestartReturns
  \/ SweepRecord
  \/ SweepNotified
  \/ \E s \in StableIds : PollerFetch(s)
  \/ PollerStatusReturns
  \/ PollerRestartReturns
  \/ \E s \in StableIds : OperatorUnquarantine(s)
  \/ \E s \in StableIds : ContainerChanges(s)
  \/ Tick

SpecHistory == InitHistory /\ [][NextHistory]_vars

\* ------------------------------------------------------ the crash loop
\* cooldown 0, max_restarts N in 1..3, no external monitor, a log that
\* holds every event, and a container that every sweep finds failed
CrashLoopConfigs ==
  [ restart : {r \in RestartConfigs : r.cooldown_seconds = 0},
    restart_counts : {[s \in StableIds |-> 0]},
    selected : {<<>>},
    excluded : {<<>>},
    include_all : {FALSE},
    label_key : {"autoheal"},
    label_value : {"true"},
    whitelist_names : {<<>>},
    blacklist_names : {<<>>},
    whitelist_labels : {<<>>},
    blacklist_labels : {<<>>},
    max_log_entries : {4},
    uk_mappings : {{}},
    uk_enabled : {FALSE},
    auto_restart_on_down : {FALSE} ]

InitCrashLoop ==
  /\ config \in CrashLoopConfigs
  /\ event_log = <<>>
  /\ quarantined = {}
  /\ maintenance = FALSE
  /\ last_restart = [s \in StableIds |-> Never]
  /\ backoff_delays = [s \in StableIds |-> 0]
  /\ containers = [s \in StableIds |-> [state |-> FailedState, gen |-> 1]]
  /\ sweep = IdleSweep
  /\ uk = IdlePoller
  /\ admin = <<>>
  /\ scan = ScanDone
  /\ call = NoCall
  /\ attempts = [s \in StableIds |-> NoAttempt]
  /\ files = NoFiles
  /\ round = NoRound
  /\ custom_health_checks = NoChecks
  /\ recorded = [s \in StableIds |-> NoRecord]
  /\ observe = FALSE
  /\ issued = [s \in StableIds |-> Never]
  /\ burst = [s \in StableIds |-> NoBurst]

\* only the sweep runs; with cooldown 0 the passing of time changes nothing
NextCrashLoop ==
  \/ \E s \in StableIds : SweepBegin(s)
  \/ SweepInspected
  \/ SweepEvaluated
  \/ SweepBackoffDone
  \/ RestartReturns
  \/ SweepRecord
  \/ SweepNotified

SpecCrashLoop == InitCrashLoop /\ [][NextCrashLoop]_vars

\* ------------------------------------------- the selection endpoint
\* identifiers a request or a list written by an older version may hold:
\* stable id, name, runtime id, short id, compose service, and the id of
\* a container that does not exist
SelectionIds ==
  {"app_api", "api-1", RuntimeId("app_api", 1),
   ShortId(RuntimeId("app_api", 1)), "api", "ghost"}

\* the duplicate-free sequences over S of length at most n
DistinctSeqs(S, n) ==
  {q \in UNION {[1..k -> S] : k \in 0..n} :
     \A i, j \in DOMAIN q : q[i] = q[j] => i = j}

\* list.remove(x) guarded by "x in list": the first occurrence goes
Remove(list, x) ==
  IF ~InSeq(x, list) THEN list
  ELSE LET i == CHOOSE k \in DOMAIN list :
                  /\ list[k] = x
                  /\ \A m \in 1..(k - 1) : list[m] # x
       IN SubSeq(list, 1, i - 1) \o SubSeq(list, i + 1, Len(list))

\* for identifier in ids: if identifier in list: list.remove(identifier)
RECURSIVE RemoveEach(_, _)
RemoveEach(list, ids) ==
  IF ids = <<>> THEN list
  ELSE RemoveEach(Remove(list, Head(ids)), Tail(ids))

\* if x not in list: list.append(x)
AppendNew(list, x) == IF InSeq(x, list) THEN list ELSE Append(list, x)

\* DockerClientWrapper.get_container: the container that the runtime finds
\* under cid (runtime id, its prefix, or name), None when there is none
get_container(cs, cid) ==
  IF \E s \in StableIds :
       cid \in {RuntimeId(s, cs[s].gen), ShortId(RuntimeId(s, cs[s].gen)),
                NameOf(s)}
  THEN CHOOSE s \in StableIds :
         cid \in {RuntimeId(s, cs[s].gen), ShortId(RuntimeId(s, cs[s].gen)),
                  NameOf(s)}
  ELSE None

\* update_container_selection, lines 291-302 and 330-341: the stable
\* identifier as the endpoint computes it (labels tested for truth)
SelectionStableId(info) ==
  IF Truthy(info.labels["monitoring.id"])
  THEN info.labels["monitoring.id"]
  ELSE IF /\ Truthy(info.labels["com.docker.compose.project"])
          /\ Truthy(info.labels["com.docker.compose.service"])
       THEN info.labels["com.docker.compose.project"] \o "_" \o
            info.labels["com.docker.compose.service"]
  ELSE info.name

\* variant: selecting a resolved container leaves its stable id excluded
SelectOne_keeps_excluded(cfg, cs, cid) ==
  LET c == get_container(cs, cid)
  IN IF c # None
     THEN LET info == get_container_info(c, cs[c].gen)
              stable_id == SelectionStableId(info)
          IN [cfg EXCEPT
                !.selected = AppendNew(@, stable_id),
                !.excluded = RemoveEach(@, <<info.name, cid>>)]
     ELSE [cfg EXCEPT !.selected = AppendNew(@, cid),
                      !.excluded = Remove(@, cid)]

\* update_container_selection, lines 284-320: one id of a request with
\* enabled = true
SelectOne(cfg, cs, cid) ==
  LET c == get_container(cs, cid)
  IN IF c # None
     THEN LET info == get_container_info(c, cs[c].gen)
              stable_id == SelectionStableId(info)
          IN [cfg EXCEPT
                !.selected = AppendNew(@, stable_id),
                !.excluded = RemoveEach(@, <<stable_id, info.name, cid>>)]
     ELSE [cfg EXCEPT !.selected = AppendNew(@, cid),
                      !.excluded = Remove(@, cid)]

\* update_container_selection, lines 321-359: one id of a request with
\* enabled = false
ExcludeOne(cfg, cs, cid) ==
  LET c == get_container(cs, cid)
  IN IF c # None
     THEN LET info == get_container_info(c, cs[c].gen)
              stable_id == SelectionStableId(info)
          IN [cfg EXCEPT
                !.excluded = AppendNew(@, stable_id),
                !.selected = RemoveEach(@, <<stable_id, info.name, cid>>)]
     ELSE [cfg EXCEPT !.excluded = AppendNew(@, cid),
                      !.selected = Remove(@, cid)]

\* the loop over request.container_ids
RECURSIVE ApplySelection(_, _, _, _)
ApplySelection(cfg, cs, ids, enabled) ==
  IF ids = <<>> THEN cfg
  ELSE ApplySelection(IF enabled THEN SelectOne(cfg, cs, Head(ids))
                      ELSE ExcludeOne(cfg, cs, Head(ids)),
                      cs, Tail(ids), enabled)

\* POST /api/containers/select: the handler runs without an await between
\* get_config and update_config
UpdateContainerSelection ==
  /\ LoopFree
  /\ \E enabled \in BOOLEAN :
       \E k \in 1..MaxRequest : \E ids \in [1..k -> SelectionIds] :
         /\ config' = ApplySelection(config, containers, ids, enabled)
         /\ call' = [op |-> "update_container_selection",
                     enabled |-> enabled]
  /\ UNCHANGED <<attempts, files, round, custom_health_checks, recorded, scan, event_log, quarantined, maintenance, last_restart,
                 backoff_delays, containers, sweep, uk, admin, observe,
                 issued, burst>>

\* lists of at most two identifiers, disjoint and duplicate-free, as a
\* configuration file of any version may hold them
InitSelection ==
  /\ \E c \in InitConfigs :
       \E sel, exc \in DistinctSeqs(SelectionIds, 2) :
         /\ Len(sel) + Len(exc) <= 2
         /\ \A x \in SelectionIds : ~(InSeq(x, sel) /\ InSeq(x, exc))
         /\ config = [c EXCEPT !.selected = sel, !.excluded = exc]
  /\ event_log = <<>>
  /\ quarantined = {}
  /\ maintenance = FALSE
  /\ last_restart = [s \in StableIds |-> Never]
  /\ backoff_delays = [s \in StableIds |-> 0]
  /\ containers = [s \in StableIds |->
        [state |-> [status |-> "running", exit_code |-> 0,
                    health |-> "healthy"],
         gen |-> 1]]
  /\ sweep = IdleSweep
  /\ uk = IdlePoller
  /\ admin = <<>>
  /\ scan = ScanDone
  /\ call = NoCall
  /\ attempts = [s \in StableIds |-> NoAttempt]
  /\ files = NoFiles
  /\ round = NoRound
  /\ custom_health_checks = NoChecks
  /\ recorded = [s \in StableIds |-> NoRecord]
  /\ observe = FALSE
  /\ issued = [s \in StableIds |-> Never]
  /\ burst = [s \in StableIds |-> NoBurst]

NextSelection == UpdateContainerSelection

SpecSelection == InitSelection /\ [][NextSelection]_vars

\* the identifier a request for cid is stored under: the stable identifier
\* of the container that cid resolves to, cid itself when there is none
StoredId(cs, cid) ==
  LET c == get_container(cs, cid)
  IN IF c # None THEN SelectionStableId(get_container_info(c, cs[c].gen))
     ELSE cid

\* how far the requests up to this one, all for the same id, have come in
\* the sequence select, exclude, select, select: 0 when they are not on it
SequenceStep(last, cid, enabled) ==
  LET same == last.op = "select_one" /\ last.id = cid
      step == IF same THEN last.step ELSE 0
  IN IF enabled
     THEN IF step = 2 THEN 3 ELSE IF step >= 3 THEN 4 ELSE 1
     ELSE IF step \in {1, 3, 4} THEN 2 ELSE 0

\* POST /api/containers/select with one id; the call remembers the document
\* the request found and its place in the sequence
SelectionRequest(cid, enabled) ==
  /\ LoopFree
  /\ config' = ApplySelection(config, containers, <<cid>>, enabled)
  /\ call' = [op |-> "select_one", id |-> cid, enabled |-> enabled,
              step |-> SequenceStep(call, cid, enabled),
              before |-> config]
  /\ UNCHANGED <<attempts, files, round, custom_health_checks, recorded, scan, event_log, quarantined, maintenance,
                 last_restart, backoff_delays, containers, sweep, uk, admin,
                 observe, issued, burst>>

NextSelectionSequence ==
  \E cid \in SelectionIds, enabled \in BOOLEAN : SelectionRequest(cid, enabled)

SpecSelectionSequence == InitSelection /\ [][NextSelectionSequence]_vars

\* ------------------------------------------------------ the event log
\* values of ui.max_log_entries that a configuration update may carry
LogLimits == {1, 2, 3}

\* some component logs an event: ConfigManager.add_event; the events are
\* numbered in restart_count so that their order can be told
AddEvent ==
  /\ LoopFree
  /\ LET serial == IF event_log = <<>> THEN 1
                   ELSE event_log[Len(event_log)].restart_count + 1
     IN /\ serial <= MaxEvents
        /\ \E status \in {"success", "failure"} :
             event_log' = add_event(event_log, config,
                                    Event("restart", "app_api", serial,
                                          status))
  /\ call' = [op |-> "add_event"]
  /\ UNCHANGED <<attempts, files, round, custom_health_checks, recorded, scan, config, quarantined, maintenance, last_restart,
                 backoff_delays, containers, sweep, uk, admin, observe,
                 issued, burst>>

\* PUT /api/config: update_config replaces the document; here the new
\* document differs from the old one in ui.max_log_entries
PutConfig ==
  /\ LoopFree
  /\ \E n \in LogLimits :
       /\ n # config.max_log_entries
       /\ config' = [config EXCEPT !.max_log_entries = n]
  /\ call' = [op |-> "update_config"]
  /\ UNCHANGED <<attempts, files, round, custom_health_checks, recorded, scan, event_log, quarantined, maintenance, last_restart,
                 backoff_delays, containers, sweep, uk, admin, observe,
                 issued, burst>>

\* an empty data directory and any configured log limit
InitEventLog ==
  /\ \E c \in InitConfigs : \E n \in LogLimits :
       config = [c EXCEPT !.max_log_entries = n]
  /\ event_log = <<>>
  /\ quarantined = {}
  /\ maintenance = FALSE
  /\ last_restart = [s \in StableIds |-> Never]
  /\ backoff_delays = [s \in StableIds |-> 0]
  /\ containers = [s \in StableIds |->
        [state |-> [status |-> "running", exit_code |-> 0,
                    health |-> "healthy"],
         gen |-> 1]]
  /\ sweep = IdleSweep
  /\ uk = IdlePoller
  /\ admin = <<>>
  /\ scan = ScanDone
  /\ call = NoCall
  /\ attempts = [s \in StableIds |-> NoAttempt]
  /\ files = NoFiles
  /\ round = NoRound
  /\ custom_health_checks = NoChecks
  /\ recorded = [s \in StableIds |-> NoRecord]
  /\ observe = FALSE
  /\ issued = [s \in StableIds |-> Never]
  /\ burst = [s \in StableIds |-> NoBurst]

NextEventLog == AddEvent \/ PutConfig

SpecEventLog == InitEventLog /\ [][NextEventLog]_vars

\* ------------------------------------------- the sweep over its list
\* the containers that list_containers returns, in its order
SweepList == <<"app_api", "db", "cache">>

\* variant: an exception in one check ends the sweep
RemainingAfter_abort(left, outcome) ==
  IF outcome = "raised" THEN <<>> ELSE Tail(left)

\* _check_containers, lines 166-170: the loop goes on with the next
\* container whether _check_single_container returned or raised
RemainingAfter(left, outcome) == Tail(left)

\* _monitor_loop wakes up and _check_containers lists the containers; when
\* the connection is lost or the listing raises, the sweep is over at once
SweepStarts ==
  /\ round.pc = "sleeping"
  /\ \E listing \in {"listed", "failed"} :
       round' = IF listing = "listed"
                THEN [pc |-> "checking", left |-> SweepList,
                      checked |-> <<>>, last |-> round.checked]
                ELSE [pc |-> "sleeping", left |-> <<>>, checked |-> <<>>,
                      last |-> round.checked]
  /\ UNCHANGED <<attempts, files, custom_health_checks, call, config, event_log, quarantined,
                 maintenance, last_restart, backoff_delays, containers,
                 sweep, uk, admin, scan, recorded, observe, issued, burst>>

\* _check_single_container of the next container returns or raises
CheckReturns ==
  /\ round.pc = "checking"
  /\ round.left # <<>>
  /\ \E outcome \in {"returned", "raised"} :
       round' = [round EXCEPT
                   !.checked = Append(@, [id |-> Head(round.left),
                                          outcome |-> outcome]),
                   !.left = RemainingAfter(round.left, outcome)]
  /\ UNCHANGED <<attempts, files, custom_health_checks, call, config, event_log, quarantined,
                 maintenance, last_restart, backoff_delays, containers,
                 sweep, uk, admin, scan, recorded, observe, issued, burst>>

\* the list is exhausted: _check_containers returns and _monitor_loop
\* sleeps for the interval
SweepEnds ==
  /\ round.pc = "checking"
  /\ round.left = <<>>
  /\ round' = [round EXCEPT !.pc = "sleeping"]
  /\ UNCHANGED <<attempts, files, custom_health_checks, call, config, event_log, quarantined,
                 maintenance, last_restart, backoff_delays, containers,
                 sweep, uk, admin, scan, recorded, observe, issued, burst>>

NextSweepList ==
  \/ SweepStarts
  \/ CheckReturns
  \/ SweepEnds

SpecSweepList == Init /\ [][NextSweepList]_vars

\* ------------------------------------------- the configuration document
\* the outcome of a failed validation
Invalid == "invalid"

\* Python values that an unvalidated assignment can leave in a field,
\* written as Python writes them
PyValues == {"True", "False", "'yes'", "'json'", "7"}

\* json.dumps of such a value
json_dumps(py) ==
  CASE py = "True" -> "true"
    [] py = "False" -> "false"
    [] py = "'yes'" -> "\"yes\""
    [] py = "'json'" -> "\"json\""
    [] OTHER -> py

\* json.loads of such a text
json_loads(text) ==
  CASE text = "true" -> "True"
    [] text = "false" -> "False"
    [] text = "\"yes\"" -> "'yes'"
    [] text = "\"json\"" -> "'json'"
    [] OTHER -> text

\* pydantic's validation of a bool field: a bool is kept, the strings for
\* true and false are converted, every other value here is rejected
validate_bool(py) ==
  CASE py \in {"True", "False"} -> py
    [] py = "'yes'" -> "True"
    [] OTHER -> Invalid

\* pydantic's validation of a str field: only a string is accepted
validate_str(py) ==
  IF py \in {"'yes'", "'json'"} THEN py ELSE Invalid

\* a custom health check; retries stands for its three fields with ge=1
HealthCheck(key, retries) ==
  [container_id |-> key, check_type |-> "http", retries |-> retries]

\* HealthCheckConfig(**hc) succeeds
ValidHealthCheck(hc) == hc.retries >= 1

\* ConfigManager.export_config: the document as JSON; the fields of the
\* model that hold numbers, lists and maps of the right type are written
\* as they are
export_config(cfg, checks) ==
  [config |-> [cfg EXCEPT !.prometheus_enabled = json_dumps(@),
                          !.log_format = json_dumps(@)],
   custom_health_checks |-> checks]

\* AutoHealConfig(**config_dict) succeeds: the fields with ge constraints
\* and the two observability fields
ValidConfig(doc) ==
  /\ doc.restart.max_restarts >= 1
  /\ doc.restart.cooldown_seconds >= 0
  /\ doc.max_log_entries >= 1
  /\ validate_bool(json_loads(doc.prometheus_enabled)) # Invalid
  /\ validate_str(json_loads(doc.log_format)) # Invalid

\* the model that AutoHealConfig(**config_dict) builds from a valid document
AutoHealConfig(doc) ==
  [doc EXCEPT !.prometheus_enabled = validate_bool(json_loads(@)),
              !.log_format = validate_str(json_loads(@))]

\* ConfigManager.import_config: what the store holds afterwards, and
\* whether the call raised. The configuration is assigned at line 342,
\* before the custom health checks are built at 345-347.
import_config(cfg, checks, json) ==
  IF ~ValidConfig(json.config)
  THEN [config |-> cfg, custom_health_checks |-> checks, raised |-> TRUE]
  ELSE IF \E k \in HealthCheckKeys :
            \E i \in DOMAIN json.custom_health_checks[k] :
              ~ValidHealthCheck(json.custom_health_checks[k][i])
  THEN [config |-> AutoHealConfig(json.config),
        custom_health_checks |-> checks, raised |-> TRUE]
  ELSE [config |-> AutoHealConfig(json.config),
        custom_health_checks |-> json.custom_health_checks,
        raised |-> FALSE]

\* PUT /api/config/observability with a body that sets prometheus_enabled
\* or log_format: the values are assigned as they come
UpdateObservabilityConfig ==
  /\ LoopFree
  /\ \E field \in {"prometheus_enabled", "log_format"}, v \in PyValues :
       /\ config[field] # v
       /\ config' = [config EXCEPT ![field] = v]
  /\ call' = [op |-> "update_observability_config"]
  /\ UNCHANGED <<attempts, files, round, custom_health_checks, recorded, scan, event_log,
                 quarantined, maintenance, last_restart, backoff_delays,
                 containers, sweep, uk, admin, observe, issued, burst>>

\* POST /api/healthchecks: the validated check is stored under the runtime
\* id of the container
AddCustomHealthCheck(s) ==
  /\ LoopFree
  /\ LET key == RuntimeId(s, containers[s].gen)
     IN /\ key \in HealthCheckKeys
        /\ \E retries \in {1, 3} :
             custom_health_checks' =
               [custom_health_checks EXCEPT
                  ![key] = <<HealthCheck(key, retries)>>]
  /\ call' = [op |-> "add_custom_health_check"]
  /\ UNCHANGED <<attempts, files, round, config, recorded, scan, event_log, quarantined,
                 maintenance, last_restart, backoff_delays, containers,
                 sweep, uk, admin, observe, issued, burst>>

\* DELETE /api/healthchecks/{container_id}
RemoveCustomHealthCheck(s) ==
  /\ LoopFree
  /\ LET key == RuntimeId(s, containers[s].gen)
     IN /\ key \in HealthCheckKeys
        /\ custom_health_checks' = [custom_health_checks EXCEPT ![key] = <<>>]
  /\ call' = [op |-> "remove_custom_health_check"]
  /\ UNCHANGED <<attempts, files, round, config, recorded, scan, event_log, quarantined,
                 maintenance, last_restart, backoff_delays, containers,
                 sweep, uk, admin, observe, issued, burst>>

\* what the store holds, for the record of a call
StoreDocument(cfg, checks) == [config |-> cfg, custom_health_checks |-> checks]

\* GET /api/config/export, and the exported text is imported again
ExportImport ==
  /\ LoopFree
  /\ LET json == export_config(config, custom_health_checks)
         after == import_config(config, custom_health_checks, json)
     IN /\ config' = after.config
        /\ custom_health_checks' = after.custom_health_checks
        /\ call' = [op |-> "export_import",
                    before |-> StoreDocument(config, custom_health_checks),
                    after |-> StoreDocument(after.config,
                                            after.custom_health_checks),
                    raised |-> after.raised]
  /\ UNCHANGED <<attempts, files, round, recorded, scan, event_log, quarantined, maintenance,
                 last_restart, backoff_delays, containers, sweep, uk, admin,
                 observe, issued, burst>>

\* documents that an operator uploads: the exported one with another log
\* limit, valid or not, and with a custom health check, valid or not
UploadedDocuments(cfg, checks) ==
  {[config |-> [export_config(cfg, checks).config
                  EXCEPT !.max_log_entries = n],
    custom_health_checks |->
      [checks EXCEPT !["app_api"] = <<HealthCheck("app_api", retries)>>]] :
     n \in {0, 2}, retries \in {0, 1}}

\* POST /api/config/import
ImportConfig ==
  /\ LoopFree
  /\ \E json \in UploadedDocuments(config, custom_health_checks) :
       LET after == import_config(config, custom_health_checks, json)
       IN /\ config' = after.config
          /\ custom_health_checks' = after.custom_health_checks
          /\ call' = [op |-> "import_config",
                      before |-> StoreDocument(config, custom_health_checks),
                      after |-> StoreDocument(after.config,
                                              after.custom_health_checks),
                      raised |-> after.raised]
  /\ UNCHANGED <<attempts, files, round, recorded, scan, event_log, quarantined, maintenance,
                 last_restart, backoff_delays, containers, sweep, uk, admin,
                 observe, issued, burst>>

\* the store on an empty data directory; the configuration has its two
\* observability fields
InitDocument ==
  /\ \E c \in InitConfigs :
       config = [prometheus_enabled |-> "True", log_format |-> "'json'"] @@ c
  /\ event_log = <<>>
  /\ quarantined = {}
  /\ maintenance = FALSE
  /\ last_restart = [s \in StableIds |-> Never]
  /\ backoff_delays = [s \in StableIds |-> 0]
  /\ containers = [s \in StableIds |->
        [state |-> [status |-> "running", exit_code |-> 0,
                    health |-> "healthy"],
         gen |-> 1]]
  /\ sweep = IdleSweep
  /\ uk = IdlePoller
  /\ admin = <<>>
  /\ scan = ScanDone
  /\ call = NoCall
  /\ attempts = [s \in StableIds |-> NoAttempt]
  /\ files = NoFiles
  /\ round = NoRound
  /\ custom_health_checks = NoChecks
  /\ recorded = [s \in StableIds |-> NoRecord]
  /\ observe = FALSE
  /\ issued = [s \in StableIds |-> Never]
  /\ burst = [s \in StableIds |-> NoBurst]

NextDocument ==
  \/ UpdateObservabilityConfig
  \/ \E s \in StableIds : AddCustomHealthCheck(s)
  \/ \E s \in StableIds : RemoveCustomHealthCheck(s)
  \/ ExportImport
  \/ ImportConfig

SpecDocument == InitDocument /\ [][NextDocument]_vars

\* ----------------------------------------------------------- enrollment
\* _process_container_start_event line 829, _scan_existing_containers
\* line 665: the label the listener and the scan look for
AutohealLabelled(labels) == labels["autoheal"] = "true"

\* the identifiers both enrollment paths look up in selected and excluded
EnrollmentIds(info) == {SelectionStableId(info), info.name, info.full_id}

\* _process_container_start_event, lines 829-858: the listener adds the
\* container of the start event to the selected list
ListenerEnrolls(cfg, info) ==
  /\ AutohealLabelled(info.labels)
  /\ ~\E x \in EnrollmentIds(info) : InSeq(x, cfg.selected)
  /\ ~\E x \in EnrollmentIds(info) : InSeq(x, cfg.excluded)

\* _scan_existing_containers, lines 664-693: the scan adds a running
\* container to the selected list of its snapshot
ScanEnrolls(cfg, info) ==
  /\ AutohealLabelled(info.labels)
  /\ ~\E x \in EnrollmentIds(info) : InSeq(x, cfg.selected)
  /\ ~\E x \in EnrollmentIds(info) : InSeq(x, cfg.excluded)

\* the auto_monitor event of an enrollment
AutoMonitorEvent(info) ==
  Event("auto_monitor", SelectionStableId(info), 0, "enabled")

\* the daemon process starts (again): MonitoringEngine.start awaits the
\* scan, which lists the running containers and then takes its snapshot of
\* the persisted configuration; handlers of the old process are gone
DaemonStarts ==
  /\ LET running == {s \in StableIds :
                        containers[s].state.status = "running"}
     IN scan' = IF running = {} THEN ScanDone
                ELSE [pc |-> "scanning", config |-> <<config>>,
                      pending |-> running, added |-> 0]
  /\ admin' = <<>>
  /\ UNCHANGED <<attempts, files, round, custom_health_checks, recorded, call, config, event_log, quarantined, maintenance,
                 last_restart, backoff_delays, containers, sweep, uk,
                 observe, issued, burst>>

\* one iteration of the scan's loop, lines 649-715: the container is
\* inspected and, when it enrolls, appended to the snapshot and announced
\* by an event; the loop then awaits the notification. After the last
\* container that does not enroll the scan saves and returns at once.
ScanContainer(s) ==
  /\ scan.pc = "scanning"
  /\ s \in scan.pending
  /\ LET info == get_container_info(s, containers[s].gen)
         snapshot == scan.config[1]
         enrolls == ScanEnrolls(snapshot, info)
         appended == IF enrolls
                     THEN [snapshot EXCEPT
                             !.selected = Append(@, SelectionStableId(info))]
                     ELSE snapshot
         added_count == scan.added + (IF enrolls THEN 1 ELSE 0)
         left == scan.pending \ {s}
     IN /\ event_log' = IF enrolls
                        THEN add_event(event_log, config,
                                       AutoMonitorEvent(info))
                        ELSE event_log
        /\ IF ~enrolls /\ left = {}
           THEN /\ config' = IF added_count > 0 THEN appended ELSE config
                /\ scan' = ScanDone
           ELSE /\ config' = config
                /\ scan' = [pc |-> "scanning", config |-> <<appended>>,
                            pending |-> left, added |-> added_count]
  /\ UNCHANGED <<attempts, files, round, custom_health_checks, recorded, call, quarantined, maintenance, last_restart,
                 backoff_delays, containers, sweep, uk, admin, observe,
                 issued, burst>>

\* lines 721-726: the loop is over after a notification; the snapshot, with
\* what the scan appended, replaces the configuration document
ScanSaves ==
  /\ scan.pc = "scanning"
  /\ scan.pending = {}
  /\ config' = IF scan.added > 0 THEN scan.config[1] ELSE config
  /\ scan' = ScanDone
  /\ UNCHANGED <<attempts, files, round, custom_health_checks, recorded, call, event_log, quarantined, maintenance, last_restart,
                 backoff_delays, containers, sweep, uk, admin, observe,
                 issued, burst>>

\* _process_container_start_event after its two awaits, lines 826-877: a
\* container has started; the listener reads the configuration, appends the
\* stable identifier, saves and logs the event in one piece. Maintenance
\* mode is not consulted.
StartEvent(s) ==
  /\ scan.pc = "listening"
  /\ LoopFree
  /\ containers[s].state.status = "running"
  /\ LET info == get_container_info(s, containers[s].gen)
         enrolls == ListenerEnrolls(config, info)
     IN /\ config' = IF enrolls
                     THEN [config EXCEPT
                             !.selected = Append(@, SelectionStableId(info))]
                     ELSE config
        /\ event_log' = IF enrolls
                        THEN add_event(event_log, config,
                                       AutoMonitorEvent(info))
                        ELSE event_log
  /\ UNCHANGED <<attempts, files, round, custom_health_checks, recorded, scan, call, quarantined, maintenance, last_restart,
                 backoff_delays, containers, sweep, uk, admin, observe,
                 issued, burst>>

\* the daemon starts on an empty data directory with a log of two entries
\* and the container running
InitEnrollment ==
  /\ config \in {[c EXCEPT !.max_log_entries = 2] : c \in InitConfigs}
  /\ event_log = <<>>
  /\ quarantined = {}
  /\ maintenance = FALSE
  /\ last_restart = [s \in StableIds |-> Never]
  /\ backoff_delays = [s \in StableIds |-> 0]
  /\ containers = [s \in StableIds |->
        [state |-> [status |-> "running", exit_code |-> 0,
                    health |-> "healthy"],
         gen |-> 1]]
  /\ sweep = IdleSweep
  /\ uk = IdlePoller
  /\ admin = <<>>
  /\ scan = [pc |-> "scanning", config |-> <<config>>,
             pending |-> StableIds, added |-> 0]
  /\ call = NoCall
  /\ attempts = [s \in StableIds |-> NoAttempt]
  /\ files = NoFiles
  /\ round = NoRound
  /\ custom_health_checks = NoChecks
  /\ recorded = [s \in StableIds |-> NoRecord]
  /\ observe = FALSE
  /\ issued = [s \in StableIds |-> Never]
  /\ burst = [s \in StableIds |-> NoBurst]

\* the scan, the listener, the operator and the runtime
NextEnrollment ==
  \/ DaemonStarts
  \/ \E s \in StableIds : ScanContainer(s)
  \/ ScanSaves
  \/ \E s \in StableIds : StartEvent(s)
  \/ EnableMaintenance
  \/ DisableMaintenance
  \/ AdminGetConfig
  \/ AdminUpdateConfig
  \/ \E s \in StableIds : ContainerRecreated(s)

SpecEnrollment == InitEnrollment /\ [][NextEnrollment]_vars

\* --------------------------------- enrollment beside the selection
\* the daemon starts on a data directory whose configuration may hold the
\* container in excluded; the scan has taken its snapshot
InitScanSelection ==
  /\ config \in {[c EXCEPT !.max_log_entries = 2, !.excluded = exc] :
                   c \in InitConfigs, exc \in {<<>>, <<"app_api">>}}
  /\ event_log = <<>>
  /\ quarantined = {}
  /\ maintenance = FALSE
  /\ last_restart = [s \in StableIds |-> Never]
  /\ backoff_delays = [s \in StableIds |-> 0]
  /\ containers = [s \in StableIds |->
        [state |-> [status |-> "running", exit_code |-> 0,
                    health |-> "healthy"],
         gen |-> 1]]
  /\ sweep = IdleSweep
  /\ uk = IdlePoller
  /\ admin = <<>>
  /\ scan = [pc |-> "scanning", config |-> <<config>>,
             pending |-> StableIds, added |-> 0]
  /\ call = NoCall
  /\ attempts = [s \in StableIds |-> NoAttempt]
  /\ files = NoFiles
  /\ round = NoRound
  /\ custom_health_checks = NoChecks
  /\ recorded = [s \in StableIds |-> NoRecord]
  /\ observe = FALSE
  /\ issued = [s \in StableIds |-> Never]
  /\ burst = [s \in StableIds |-> NoBurst]

\* the scan and the listener, with the operator selecting and excluding
\* containers through POST /api/containers/select
NextScanSelection ==
  \/ DaemonStarts
  \/ \E s \in StableIds : ScanContainer(s)
  \/ ScanSaves
  \/ \E s \in StableIds : StartEvent(s)
  \/ \E cid \in SelectionIds, enabled \in BOOLEAN :
       SelectionRequest(cid, enabled)

SpecScanSelection == InitScanSelection /\ [][NextScanSelection]_vars

\* ------------------------------------- the functions on one container
\* label sets of a container: every label absent, empty or set
LabelSets ==
  {[k \in LabelKeys |->
      CASE k = "monitoring.id" -> m
        [] k = "com.docker.compose.project" -> p
        [] k = "com.docker.compose.service" -> sv
        [] k = "autoheal" -> a
        [] OTHER -> t] :
     m \in {None, "", "svc-a"}, p \in {None, "", "app"},
     sv \in {None, "", "api"}, a \in {None, "true"}, t \in {None, "web"}}

\* container descriptions as get_container_info reports them
Infos ==
  [full_id : {RuntimeId("app_api", 1)},
   id : {ShortId(RuntimeId("app_api", 1))},
   name : {"api-1"},
   labels : LabelSets]

\* the identity function is applied to a container description (each
\* function of this section is applied once, to any input)
CallGetStableIdentifier ==
  /\ call.op = None
  /\ \E info \in Infos :
       call' = [op |-> "get_stable_identifier", info |-> info,
                id |-> get_stable_identifier(info)]
  /\ UNCHANGED <<attempts, files, round, custom_health_checks, recorded, scan, config, event_log, quarantined, maintenance, last_restart,
                 backoff_delays, containers, sweep, uk, admin, observe,
                 issued, burst>>

\* container states as an inspection may report them
InspectedStates ==
  [status : {"running", "starting", "exited", "stopped", "dead", "paused"},
   exit_code : {0, 137},
   health : {None, "healthy", "unhealthy"}]

\* restart sections in each mode, with and without respect_manual_stop
EvaluatedConfigs ==
  {[NoRestart EXCEPT !.mode = m, !.respect_manual_stop = r] :
     m \in {"on-failure", "health", "both"}, r \in BOOLEAN}

\* the evaluator is applied to an inspected state, with any outcome of
\* the custom probe and any verdict of the external monitor
CallEvaluate ==
  /\ call.op = None
  /\ \E st \in InspectedStates, restart \in EvaluatedConfigs,
        custom \in {"none", "pass", "fail"}, external \in BOOLEAN :
       call' = [op |-> "evaluate_container_health", state |-> st,
                restart |-> restart, custom |-> custom,
                external |-> external,
                needs_restart |->
                  evaluate_container_health(st, restart, custom, external)]
  /\ UNCHANGED <<attempts, files, round, custom_health_checks, recorded, scan, config, event_log, quarantined, maintenance, last_restart,
                 backoff_delays, containers, sweep, uk, admin, observe,
                 issued, burst>>

\* identifiers that a selected or excluded list may hold
ListedIds ==
  {"app_api", "svc-a", "api-1", RuntimeId("app_api", 1),
   ShortId(RuntimeId("app_api", 1)), "api", "ghost"}

\* configuration documents that differ in what the selection filter reads
FilterConfigs ==
  LET base == CHOOSE c \in InitConfigs : TRUE
  IN {[base EXCEPT !.selected = sel, !.excluded = exc,
                   !.include_all = all, !.label_key = lab[1],
                   !.label_value = lab[2], !.whitelist_names = wn,
                   !.blacklist_names = bn, !.whitelist_labels = wl,
                   !.blacklist_labels = bl] :
        sel \in DistinctSeqs(ListedIds, 1),
        exc \in DistinctSeqs(ListedIds, 1),
        all \in BOOLEAN,
        lab \in {<<"autoheal", "true">>, <<"tier", "web">>},
        wn \in {<<>>, <<"db-*">>, <<"api-*">>},
        bn \in {<<>>, <<"api-*">>},
        wl \in {<<>>, <<[key |-> "tier", value |-> "db"]>>,
                 <<[key |-> "tier", value |-> "web"]>>},
        bl \in {<<>>, <<[key |-> "tier", value |-> "web"]>>}}

\* the same container after it was removed and created again: new
\* runtime id, same name and labels
Recreated(info) ==
  [info EXCEPT !.full_id = RuntimeId("app_api", 2),
               !.id = ShortId(RuntimeId("app_api", 2))]

\* the selection filter is applied to a container, and to the same
\* container after its re-creation
CallShouldMonitor ==
  /\ call.op = None
  /\ \E cfg \in FilterConfigs, info \in Infos :
       call' = [op |-> "should_monitor_container", cfg |-> cfg,
                info |-> info,
                monitored |-> should_monitor_container(cfg, info),
                monitored_recreated |->
                  should_monitor_container(cfg, Recreated(info))]
  /\ UNCHANGED <<attempts, files, round, custom_health_checks, recorded, scan, config, event_log, quarantined, maintenance, last_restart,
                 backoff_delays, containers, sweep, uk, admin, observe,
                 issued, burst>>

\* configuration documents that differ in the enrollment label, with
\* nothing selected and nothing excluded
EnrollmentConfigs ==
  LET base == CHOOSE c \in InitConfigs : TRUE
  IN {[base EXCEPT !.label_key = lab[1], !.label_value = lab[2]] :
        lab \in {<<"autoheal", "true">>, <<"tier", "web">>}}

\* a container starts, or is found running by the startup scan: what the
\* listener and the scan decide about its enrollment
CallEnroll ==
  /\ call.op = None
  /\ \E cfg \in EnrollmentConfigs, info \in Infos :
       call' = [op |-> "enroll", cfg |-> cfg, info |-> info,
                listener |-> ListenerEnrolls(cfg, info),
                scan |-> ScanEnrolls(cfg, info)]
  /\ UNCHANGED <<attempts, files, round, custom_health_checks, recorded, scan, config, event_log, quarantined, maintenance,
                 last_restart, backoff_delays, containers, sweep, uk, admin,
                 observe, issued, burst>>

NextFunctions ==
  \/ CallGetStableIdentifier
  \/ CallEvaluate
  \/ CallShouldMonitor
  \/ CallEnroll

SpecFunctions == Init /\ [][NextFunctions]_vars

\* ------------------------------------------------- the store on its own
\* identifiers the quarantine operations are called with
QuarantineIds == StableIds \cup {"worker"}

\* values of window_seconds the count is asked for
Windows == {0, 1, 60}

\* the key the engine records a restart of container s under
RestartKey(s) == get_stable_identifier(get_container_info(s, containers[s].gen))

\* config_manager.record_restart(stable_id) after a restart of s
RecordRestart(s) ==
  /\ config.restart_counts[RestartKey(s)] < MaxCount
  /\ config' = record_restart(config, RestartKey(s))
  /\ recorded' = [recorded EXCEPT
                    ![RestartKey(s)] =
                       [n |-> @.n + 1,
                        gens |-> @.gens \cup {containers[s].gen}]]
  /\ UNCHANGED <<attempts, files, round, custom_health_checks, call, event_log, quarantined, maintenance, last_restart,
                 backoff_delays, containers, sweep, uk, admin, scan,
                 observe, issued, burst>>

\* config_manager.clear_restart_history(stable_id)
ClearRestartHistory(s) ==
  /\ config' = clear_restart_history(config, RestartKey(s))
  /\ recorded' = [recorded EXCEPT ![RestartKey(s)] = NoRecord]
  /\ UNCHANGED <<attempts, files, round, custom_health_checks, call, event_log, quarantined, maintenance, last_restart,
                 backoff_delays, containers, sweep, uk, admin, scan,
                 observe, issued, burst>>

\* config_manager.get_restart_count(stable_id, window_seconds)
GetRestartCount(s) ==
  /\ \E w \in Windows :
       call' = [op |-> "get_restart_count", id |-> RestartKey(s),
                window_seconds |-> w,
                count |-> get_restart_count(config, RestartKey(s), w)]
  /\ UNCHANGED <<attempts, files, round, custom_health_checks, recorded, config, event_log, quarantined, maintenance,
                 last_restart, backoff_delays, containers, sweep, uk, admin,
                 scan, observe, issued, burst>>

\* config_manager.quarantine_container(id)
QuarantineContainer(id) ==
  /\ quarantined' = quarantine_container(quarantined, id)
  /\ call' = [op |-> "quarantine_container", id |-> id,
              before |-> quarantined,
              after |-> quarantine_container(quarantined, id)]
  /\ UNCHANGED <<attempts, files, round, custom_health_checks, recorded, config, event_log, maintenance, last_restart,
                 backoff_delays, containers, sweep, uk, admin, scan,
                 observe, issued, burst>>

\* config_manager.unquarantine_container(id)
UnquarantineContainer(id) ==
  /\ quarantined' = unquarantine_container(quarantined, id)
  /\ call' = [op |-> "unquarantine_container", id |-> id,
              before |-> quarantined,
              after |-> unquarantine_container(quarantined, id)]
  /\ UNCHANGED <<attempts, files, round, custom_health_checks, recorded, config, event_log, maintenance, last_restart,
                 backoff_delays, containers, sweep, uk, admin, scan,
                 observe, issued, burst>>

\* the callers of the store and the runtime
NextStore ==
  \/ \E s \in StableIds : RecordRestart(s)
  \/ \E s \in StableIds : ClearRestartHistory(s)
  \/ \E s \in StableIds : GetRestartCount(s)
  \/ \E id \in QuarantineIds : QuarantineContainer(id)
  \/ \E id \in QuarantineIds : UnquarantineContainer(id)
  \/ \E s \in StableIds : ContainerRecreated(s)

SpecStore == Init /\ [][NextStore]_vars

\* ------------------------------------------------ the persisted files
\* AutoHealConfig(): the document _load_config falls back to
DefaultConfig ==
  [ restart |-> [mode |-> "on-failure", cooldown_seconds |-> 60,
                 max_restarts |-> 3, window_seconds |-> 600,
                 backoff_enabled |-> TRUE, initial_seconds |-> 10,
                 mult_num |-> 2, mult_den |-> 1,
                 respect_manual_stop |-> TRUE],
    restart_counts |-> [s \in StableIds |-> 0],
    selected |-> <<>>,
    excluded |-> <<>>,
    include_all |-> FALSE,
    label_key |-> "autoheal",
    label_value |-> "true",
    whitelist_names |-> <<>>,
    blacklist_names |-> <<>>,
    whitelist_labels |-> <<>>,
    blacklist_labels |-> <<>>,
    max_log_entries |-> 50,
    uk_mappings |-> {},
    uk_enabled |-> FALSE,
    auto_restart_on_down |-> TRUE ]

\* open(file, 'w') in _save_config, _save_events and _save_quarantine: the
\* file is truncated in place, and doc is the document json.dump is about
\* to write into it
OpenForWriting(f, name, doc) ==
  [writing |-> name,
   disk |-> [f.disk EXCEPT ![name] = [text |-> "empty", doc |-> doc]]]

\* json.load of a file: the document, or a JSONDecodeError
JsonLoad(file) == IF file.text = "complete" THEN <<file.doc>> ELSE <<>>

\* _load_config: the document on disk, the defaults when it does not parse
load_config(file) ==
  IF JsonLoad(file) = <<>> THEN DefaultConfig ELSE JsonLoad(file)[1]

\* _load_events: the events on disk, none when the file does not parse
load_events(file) ==
  IF JsonLoad(file) = <<>> THEN <<>> ELSE JsonLoad(file)[1]

\* _load_quarantine: the set on disk, empty when the file does not parse
load_quarantine(file) ==
  IF JsonLoad(file) = <<>> THEN {} ELSE JsonLoad(file)[1]

\* record_restart(stable_id): the counter, then _save_config opens the file
RecordRestartSaves(s) ==
  /\ files.writing = None
  /\ config.restart_counts[s] < MaxCount
  /\ config' = record_restart(config, s)
  /\ files' = OpenForWriting(files, "config.json", record_restart(config, s))
  /\ UNCHANGED <<attempts, event_log, quarantined, round, custom_health_checks, recorded, maintenance, last_restart,
                 backoff_delays, containers, sweep, uk, admin, scan, call,
                 observe, issued, burst>>

\* add_event(event): the log, then _save_events opens the file
AddEventSaves(s) ==
  /\ files.writing = None
  /\ Len(event_log) < MaxCount
  /\ LET log == add_event(event_log, config,
                          Event("restart", s, config.restart_counts[s],
                                "success"))
     IN /\ event_log' = log
        /\ files' = OpenForWriting(files, "events.json", log)
  /\ UNCHANGED <<attempts, config, quarantined, round, custom_health_checks, recorded, maintenance, last_restart,
                 backoff_delays, containers, sweep, uk, admin, scan, call,
                 observe, issued, burst>>

\* quarantine_container(id): the set, then _save_quarantine opens the file
QuarantineContainerSaves(id) ==
  /\ files.writing = None
  /\ quarantined' = quarantine_container(quarantined, id)
  /\ files' = OpenForWriting(files, "quarantine.json",
                             quarantine_container(quarantined, id))
  /\ UNCHANGED <<attempts, config, event_log, round, custom_health_checks, recorded, maintenance, last_restart,
                 backoff_delays, containers, sweep, uk, admin, scan, call,
                 observe, issued, burst>>

\* unquarantine_container(id): the set, then _save_quarantine opens the file
UnquarantineContainerSaves(id) ==
  /\ files.writing = None
  /\ quarantined' = unquarantine_container(quarantined, id)
  /\ files' = OpenForWriting(files, "quarantine.json",
                             unquarantine_container(quarantined, id))
  /\ UNCHANGED <<attempts, config, event_log, round, custom_health_checks, recorded, maintenance, last_restart,
                 backoff_delays, containers, sweep, uk, admin, scan, call,
                 observe, issued, burst>>

\* json.dump(doc, f): the encoder writes the document chunk by chunk, and
\* the file's buffer reaches the disk before the document is whole
JsonDumpWrites ==
  /\ files.writing # None
  /\ files.disk[files.writing].text = "empty"
  /\ files' = [files EXCEPT !.disk[files.writing].text = "partial"]
  /\ UNCHANGED <<attempts, config, event_log, quarantined, round, custom_health_checks, recorded, maintenance, last_restart,
                 backoff_delays, containers, sweep, uk, admin, scan, call,
                 observe, issued, burst>>

\* the with block of the save is left: the file holds the new document
FileCloses ==
  /\ files.writing # None
  /\ files' = [writing |-> None,
               disk |-> [files.disk EXCEPT ![files.writing].text = "complete"]]
  /\ UNCHANGED <<attempts, config, event_log, quarantined, round, custom_health_checks, recorded, maintenance, last_restart,
                 backoff_delays, containers, sweep, uk, admin, scan, call,
                 observe, issued, burst>>

\* the daemon is killed, at any point of a write, and started again:
\* ConfigManager.__init__ loads the three files as they are on disk
DaemonRestartsFromDisk ==
  /\ config' = load_config(files.disk["config.json"])
  /\ event_log' = load_events(files.disk["events.json"])
  /\ quarantined' = load_quarantine(files.disk["quarantine.json"])
  /\ files' = [files EXCEPT !.writing = None]
  /\ call' = [op |-> "load",
              unreadable |-> {n \in FileNames : JsonLoad(files.disk[n]) = <<>>}]
  /\ UNCHANGED <<attempts, round, custom_health_checks, recorded, maintenance,
                 last_restart, backoff_delays, containers, sweep, uk, admin,
                 scan, observe, issued, burst>>

\* a data directory that holds the state of the store
InitPersisted ==
  /\ config \in InitConfigs
  /\ event_log = <<>>
  /\ quarantined = {}
  /\ maintenance = FALSE
  /\ last_restart = [s \in StableIds |-> Never]
  /\ backoff_delays = [s \in StableIds |-> 0]
  /\ containers = [s \in StableIds |->
        [state |-> [status |-> "running", exit_code |-> 0,
                    health |-> "healthy"],
         gen |-> 1]]
  /\ sweep = IdleSweep
  /\ uk = IdlePoller
  /\ admin = <<>>
  /\ scan = ScanDone
  /\ call = NoCall
  /\ attempts = [s \in StableIds |-> NoAttempt]
  /\ files = [writing |-> None,
              disk |-> [n \in FileNames |->
                          CASE n = "config.json" -> Complete(config)
                            [] n = "events.json" -> Complete(<<>>)
                            [] OTHER -> Complete({})]]
  /\ round = NoRound
  /\ custom_health_checks = NoChecks
  /\ recorded = [s \in StableIds |-> NoRecord]
  /\ observe = FALSE
  /\ issued = [s \in StableIds |-> Never]
  /\ burst = [s \in StableIds |-> NoBurst]

\* the mutations of the store, their writes, and the daemon's restarts
NextPersisted ==
  \/ \E s \in {"app_api"} : RecordRestartSaves(s)
  \/ \E s \in {"app_api"} : AddEventSaves(s)
  \/ \E id \in {"app_api"} : QuarantineContainerSaves(id)
  \/ \E id \in {"app_api"} : UnquarantineContainerSaves(id)
  \/ JsonDumpWrites
  \/ FileCloses
  \/ DaemonRestartsFromDisk

SpecPersisted == InitPersisted /\ [][NextPersisted]_vars

\* ------------------------------------------- the Uptime-Kuma integration
\* PUT /api/config: update_config replaces the document; here the new
\* document differs from the old one in its uptime_kuma section and its
\* mappings.  The poller's task is left as it is.
PutUptimeKumaConfig ==
  /\ LoopFree
  /\ \E enabled \in BOOLEAN, auto \in BOOLEAN, mapped \in SUBSET StableIds :
       config' = [config EXCEPT !.uk_enabled = enabled,
                                !.auto_restart_on_down = auto,
                                !.uk_mappings = mapped]
  /\ UNCHANGED <<attempts, uk, files, round, custom_health_checks, recorded, scan, call, event_log,
                 quarantined, maintenance, last_restart, backoff_delays,
                 containers, sweep, admin, observe, issued, burst>>

\* DELETE /api/uptime-kuma/mappings/{container_id}
DeleteUptimeKumaMapping(s) ==
  /\ LoopFree
  /\ config' = [config EXCEPT !.uk_mappings = @ \ {s}]
  /\ UNCHANGED <<attempts, uk, files, round, custom_health_checks, recorded, scan, call, event_log,
                 quarantined, maintenance, last_restart, backoff_delays,
                 containers, sweep, admin, observe, issued, burst>>

\* POST /api/uptime-kuma/disable: the flag is cleared and the poller's
\* task cancelled, which ends it at the await it is suspended in
DisableUptimeKuma ==
  /\ LoopFree
  /\ config' = [config EXCEPT !.uk_enabled = FALSE]
  /\ uk' = StoppedPoller
  /\ UNCHANGED <<attempts, files, round, custom_health_checks, recorded, scan, call, event_log,
                 quarantined, maintenance, last_restart, backoff_delays,
                 containers, sweep, admin, observe, issued, burst>>

\* the poller with the handlers that change the integration's settings
NextUptimeKuma ==
  \/ \E s \in StableIds : PollerFetch(s)
  \/ PollerStatusReturns
  \/ PollerRestartReturns
  \/ PutUptimeKumaConfig
  \/ \E s \in StableIds : DeleteUptimeKumaMapping(s)
  \/ DisableUptimeKuma
  \/ AdminGetConfig
  \/ AdminUpdateConfig
  \/ \E s \in StableIds : ContainerChanges(s)

SpecUptimeKuma == Init /\ [][NextUptimeKuma]_vars

\* ------------------------------------------------- the backoff delays
\* multipliers as num / den: 1.0, 1.5 and 2.0
Multipliers == {<<1, 1>>, <<3, 2>>, <<2, 1>>}

\* restart sections with backoff, no cooldown, and each initial delay and
\* multiplier
BackoffRestarts ==
  {[r EXCEPT !.initial_seconds = i, !.mult_num = m[1], !.mult_den = m[2]] :
     r \in {x \in RestartConfigs : /\ x.backoff_enabled
                                   /\ x.cooldown_seconds = 0
                                   /\ x.max_restarts = 2},
     i \in {1, 2},
     m \in Multipliers}

\* the loop starts with one of these sections, which nothing changes, and
\* with the history of the attempts
InitBackoffs ==
  /\ config \in {[c EXCEPT !.restart = r] :
                   c \in InitConfigs, r \in BackoffRestarts}
  /\ event_log = <<>>
  /\ quarantined = {}
  /\ maintenance = FALSE
  /\ last_restart = [s \in StableIds |-> Never]
  /\ backoff_delays = [s \in StableIds |-> 0]
  /\ containers = [s \in StableIds |->
        [state |-> [status |-> "running", exit_code |-> 0,
                    health |-> "healthy"],
         gen |-> 1]]
  /\ sweep = IdleSweep
  /\ uk = IdlePoller
  /\ admin = <<>>
  /\ scan = ScanDone
  /\ call = NoCall
  /\ attempts = [s \in StableIds |-> NoAttempt]
  /\ files = NoFiles
  /\ round = NoRound
  /\ custom_health_checks = NoChecks
  /\ recorded = [s \in StableIds |-> NoRecord]
  /\ observe = TRUE
  /\ issued = [s \in StableIds |-> Never]
  /\ burst = [s \in StableIds |-> NoBurst]

\* the sweep, the operator's release and the runtime
NextBackoffs ==
  \/ \E s \in StableIds : SweepBegin(s)
  \/ SweepInspected
  \/ SweepQuarantineEvaluated
  \/ SweepEvaluated
  \/ SweepBackoffDone
  \/ RestartReturns
  \/ SweepRecord
  \/ SweepNotified
  \/ \E s \in StableIds : OperatorUnquarantine(s)
  \/ \E s \in StableIds : ContainerChanges(s)

SpecBackoffs == InitBackoffs /\ [][NextBackoffs]_vars

\* ------------------------------------------- restarts beside exclusion
\* the loop and the poller start on a configuration that may hold the
\* container in excluded
InitExclusion ==
  /\ config \in {[c EXCEPT !.excluded = exc] :
                   c \in InitConfigs, exc \in {<<>>, <<"app_api">>}}
  /\ event_log = <<>>
  /\ quarantined = {}
  /\ maintenance = FALSE
  /\ last_restart = [s \in StableIds |-> Never]
  /\ backoff_delays = [s \in StableIds |-> 0]
  /\ containers = [s \in StableIds |->
        [state |-> [status |-> "running", exit_code |-> 0,
                    health |-> "healthy"],
         gen |-> 1]]
  /\ sweep = IdleSweep
  /\ uk = IdlePoller
  /\ admin = <<>>
  /\ scan = ScanDone
  /\ call = NoCall
  /\ attempts = [s \in StableIds |-> NoAttempt]
  /\ files = NoFiles
  /\ round = NoRound
  /\ custom_health_checks = NoChecks
  /\ recorded = [s \in StableIds |-> NoRecord]
  /\ observe = FALSE
  /\ issued = [s \in StableIds |-> Never]
  /\ burst = [s \in StableIds |-> NoBurst]

\* POST /api/containers/select with enabled = false and the container's
\* stable identifier
ExcludeRequest(s) ==
  /\ ~InSeq(s, config.excluded)
  /\ SelectionRequest(s, FALSE)

\* the sweep and the poller, with the operator excluding containers
NextExclusion ==
  \/ \E s \in StableIds : SweepBegin(s)
  \/ SweepInspected
  \/ SweepQuarantineEvaluated
  \/ SweepEvaluated
  \/ SweepBackoffDone
  \/ RestartReturns
  \/ SweepRecord
  \/ SweepNotified
  \/ \E s \in StableIds : PollerFetch(s)
  \/ PollerStatusReturns
  \/ PollerRestartReturns
  \/ \E s \in StableIds : ExcludeRequest(s)
  \/ \E s \in StableIds : ContainerChanges(s)
  \/ Tick

SpecExclusion == InitExclusion /\ [][NextExclusion]_vars

\* ------------------------------------------------------ the engine stops
\* the sweep's task has been cancelled
StoppedSweep == [IdleSweep EXCEPT !.pc = "stopped"]

\* the listener's task has been cancelled
StoppedScan == [ScanDone EXCEPT !.pc = "stopped"]

\* MonitoringEngine.stop, lines 91-118: the sweep's task and the
\* listener's task are cancelled; CancelledError is raised at the await
\* the task is suspended in, passes the except Exception clauses of
\* _check_containers and ends _monitor_loop at line 134.  A restart RPC
\* that runs in the worker thread is not interrupted.
EngineStops ==
  /\ LoopFree
  /\ sweep.pc # "stopped"
  /\ sweep' = StoppedSweep
  /\ scan' = StoppedScan
  /\ UNCHANGED <<attempts, files, round, custom_health_checks, recorded, call, config, event_log, quarantined, maintenance, last_restart,
                 backoff_delays, containers, uk, admin, observe, issued, burst>>

\* the sweep, the runtime, the clock and the shutdown of the service
NextEngineStop ==
  \/ \E s \in StableIds : SweepBegin(s)
  \/ SweepInspected
  \/ SweepQuarantineEvaluated
  \/ SweepEvaluated
  \/ SweepBackoffDone
  \/ RestartReturns
  \/ SweepRecord
  \/ SweepNotified
  \/ EngineStops
  \/ \E s \in StableIds : ContainerChanges(s)
  \/ Tick

SpecEngineStop == Init /\ [][NextEngineStop]_vars

\* ------------------------------------------------------ a restart storm
\* states of a container that every evaluation reports as needing restart
FailingStates ==
  {st \in ContainerStates : st.health = "unhealthy" \/ st.exit_code # 0}

\* the loop starts beside a failing container, with each restart section;
\* the Uptime-Kuma integration is off
InitStorm ==
  /\ config \in {[c EXCEPT !.restart = r] :
                   c \in CrashLoopConfigs, r \in RestartConfigs}
  /\ event_log = <<>>
  /\ quarantined = {}
  /\ maintenance = FALSE
  /\ last_restart = [s \in StableIds |-> Never]
  /\ backoff_delays = [s \in StableIds |-> 0]
  /\ containers \in [StableIds -> [state : FailingStates, gen : {1}]]
  /\ sweep = IdleSweep
  /\ uk = IdlePoller
  /\ admin = <<>>
  /\ scan = ScanDone
  /\ call = NoCall
  /\ attempts = [s \in StableIds |-> NoAttempt]
  /\ files = NoFiles
  /\ round = NoRound
  /\ custom_health_checks = NoChecks
  /\ recorded = [s \in StableIds |-> NoRecord]
  /\ observe = FALSE
  /\ issued = [s \in StableIds |-> Never]
  /\ burst = [s \in StableIds |-> NoBurst]

\* the container comes up unhealthy after a restart, or crashes again
ContainerKeepsFailing(s) ==
  /\ ContainerChanges(s)
  /\ containers'[s].state \in FailingStates

\* _monitor_loop, lines 120-137: while the engine runs, every await of the
\* check returns and the next pass begins
SweepRuns ==
  /\ WF_vars(\E s \in StableIds : SweepBegin(s))
  /\ WF_vars(SweepInspected)
  /\ WF_vars(SweepQuarantineEvaluated)
  /\ WF_vars(SweepEvaluated)
  /\ WF_vars(SweepBackoffDone)
  /\ WF_vars(RestartReturns)
  /\ WF_vars(SweepRecord)
  /\ WF_vars(SweepNotified)

NextStorm ==
  \/ \E s \in StableIds : SweepBegin(s)
  \/ SweepInspected
  \/ SweepQuarantineEvaluated
  \/ SweepEvaluated
  \/ SweepBackoffDone
  \/ RestartReturns
  \/ SweepRecord
  \/ SweepNotified
  \/ \E s \in StableIds : ContainerKeepsFailing(s)
  \/ Tick

\* the sweep runs fairly and time passes
SpecStorm == InitStorm /\ [][NextStorm]_vars /\ SweepRuns /\ WF_vars(Tick)

\* ------------------------------------------------------------ properties
\* the sweep hands a restart RPC for s to its worker thread in this step
SweepIssues(s) == ~SweepRpcInFlight(s) /\ SweepRpcInFlight(s)'

\* the poller makes a restart RPC for s in this step
PollerIssues(s) == ~PollerRpcInFlight(s) /\ PollerRpcInFlight(s)'

\* the sweep releases the quarantine entry x in this step
AutoReleases(x) ==
  /\ sweep.pc = "qeval"
  /\ sweep.qid = x
  /\ sweep'.pc = "idle"
  /\ sweep'.needs = "no"

\* C1: for every stable id, the restart RPC of the sweep and the restart
\* RPC of the poller are never in flight at the same time.
C1_OneRestartInFlight ==
  \A s \in StableIds : ~(SweepRpcInFlight(s) /\ PollerRpcInFlight(s))

\* C2: whenever the sweep issues a restart RPC, maintenance mode is off,
\* also when it was enabled while the container check was in progress.
C2_SweepIssuesOutsideMaintenance ==
  [][\A s \in StableIds : SweepIssues(s) => ~maintenance]_vars

\* C3: while maintenance mode is on the poller has no restart RPC in
\* flight, and a status that arrives while it is on ends the poll without
\* a restart RPC, without a counter increment and without an event (a step
\* that leaves admin alone is the poller's, not the enable handler's, which
\* restarts the poller).
C3_PollerIdleInMaintenance ==
  [][/\ maintenance => ~(\E s \in StableIds : PollerRpcInFlight(s))
     /\ maintenance' => ~(\E s \in StableIds : PollerRpcInFlight(s)')
     /\ (maintenance /\ uk.pc = "fetch" /\ uk' # uk /\ admin' = admin)
          => /\ uk' = IdlePoller
             /\ config' = config
             /\ event_log' = event_log]_vars

\* C3 witness: maintenance is on and a status is about to arrive for a
\* container that the poller would restart if maintenance were off
C3_Witness ==
  /\ maintenance
  /\ uk.pc = "fetch"
  /\ uk.auto
  /\ MonitorDownRestarts(config, quarantined, FALSE, uk.cur,
                         RuntimeId(uk.cur, containers[uk.cur].gen),
                         containers[uk.cur].state.status = "running")

\* C4: while a stable id is quarantined, neither the sweep nor the poller
\* has a restart RPC for it in flight, and the sweep is not in the backoff
\* sleep that precedes one.
C4_NoRestartWhileQuarantined ==
  \A s \in StableIds :
    s \in quarantined =>
      /\ ~SweepRpcInFlight(s)
      /\ ~PollerRpcInFlight(s)
      /\ ~(sweep.cur = s /\ sweep.pc \in {"backoff", "rpc_done", "notify"})

\* C4 witness: a quarantined container is running and unhealthy, the sweep
\* is evaluating it and the poller awaits the status of its monitor
C4_Witness ==
  \E s \in StableIds :
    /\ s \in quarantined
    /\ sweep.pc = "qeval"
    /\ sweep.cur = s
    /\ sweep.info.health = "unhealthy"
    /\ uk.pc = "fetch"
    /\ uk.cur = s

\* C5: in the crash loop with max_restarts = N the event log is always a
\* prefix of restart(1), ..., restart(N), quarantine(N); the counter is the
\* number of restart events; the container is quarantined exactly when the
\* quarantine event is there, and then the sweep restarts nothing.
C5_CrashLoopEvents ==
  \A s \in StableIds :
    LET N == config.restart.max_restarts
        restarts == IF Len(event_log) <= N THEN Len(event_log) ELSE N
    IN /\ Len(event_log) <= N + 1
       /\ \A i \in 1..Len(event_log) :
            IF i <= N
            THEN /\ event_log[i].event_type = "restart"
                 /\ event_log[i].stable_id = s
                 /\ event_log[i].restart_count = i
            ELSE event_log[i] = Event("quarantine", s, N, "quarantined")
       /\ config.restart_counts[s] = restarts
       /\ (s \in quarantined) <=> (Len(event_log) = N + 1)
       /\ s \in quarantined => sweep.pc \in {"idle", "inspect"}

\* C5 witness: with N = 3, three restarts and the quarantine have
\* happened, and the sweep has looked at the quarantined container again
C5_Witness ==
  \E s \in StableIds :
    /\ config.restart.max_restarts = 3
    /\ Len(event_log) = config.restart.max_restarts + 1
    /\ s \in quarantined
    /\ sweep.pc = "idle"
    /\ sweep.qid = s

\* C6: the restart events of one stable id within one window never
\* outnumber max_restarts.
C6_RestartsPerWindow ==
  \A s \in StableIds : burst[s].count <= config.restart.max_restarts

\* C7: a restart counter decreases only in a step that clears it: the
\* operator's unquarantine or the auto-release of the sweep.
C7_CounterMonotone ==
  [][\A s \in StableIds :
       \/ config'.restart_counts[s] >= config.restart_counts[s]
       \/ OperatorUnquarantine(s)
       \/ AutoReleases(s)]_vars

\* C8: a restart RPC for a stable id is issued, by the sweep or by the
\* poller, only when cooldown_seconds have passed since the last one.
C8_CooldownBetweenRestarts ==
  [][\A s \in StableIds :
       (SweepIssues(s) \/ PollerIssues(s))
         => \/ issued[s] = Never
            \/ issued[s] >= config.restart.cooldown_seconds]_vars

\* C9: when the evaluation of a quarantined running container returns
\* needs_restart = false, the same step removes the stable id from
\* quarantine, clears its counter, leaves its backoff at initial_seconds,
\* appends exactly the auto_unquarantine success event and issues no
\* restart.
C9_AutoRelease ==
  [][\A s \in StableIds :
       (/\ sweep.pc = "qeval"
        /\ sweep.cur = s
        /\ sweep.info.status = "running"
        /\ sweep'.needs = "no")
         => /\ s \notin quarantined'
            /\ config'.restart_counts[s] = 0
            /\ BackoffDelay(backoff_delays', s, config'.restart)
                 = config'.restart.initial_seconds
            /\ event_log' = add_event(event_log, config,
                 Event("auto_unquarantine", s, 0, "success"))
            /\ sweep'.pc = "idle"
            /\ uk' = uk]_vars

\* C9 witness: the check of a quarantined container has returned with
\* needs_restart = false after restarts had been counted and a backoff
\* stored, and the release is the last event
C9_Witness ==
  \E s \in StableIds :
    /\ sweep.pc = "idle"
    /\ sweep.cur = s
    /\ sweep.qid = s
    /\ sweep.needs = "no"
    /\ s \notin quarantined
    /\ backoff_delays[s] # 0
    /\ event_log # <<>>
    /\ event_log[Len(event_log)].event_type = "auto_unquarantine"

\* C10: an entry leaves the quarantined set only in the operator's
\* unquarantine step or in the sweep's auto-release, and the auto-release
\* happens only for a container inspected as running with
\* needs_restart = false.
C10_QuarantineLeftOnlyByRelease ==
  [][\A x \in quarantined \ quarantined' :
       \/ OperatorUnquarantine(x)
       \/ (AutoReleases(x) /\ sweep.info.status = "running")]_vars

\* C10 witness: the operator has released a container whose quarantine is
\* still the last event of the log
C10_Witness ==
  /\ quarantined = {}
  /\ event_log # <<>>
  /\ event_log[Len(event_log)].event_type = "quarantine"

\* C11: after any sequence of select and exclude requests on lists that
\* started disjoint and duplicate-free, no identifier is in both
\* containers.selected and containers.excluded.
C11_SelectedExcludedDisjoint ==
  \A x \in SelectionIds :
    ~(InSeq(x, config.selected) /\ InSeq(x, config.excluded))

\* C11 witness: requests have put the stable id of a resolved container
\* into one list and an unresolvable id into the other, three identifiers
\* being listed in all
C11_Witness ==
  /\ call.op = "update_container_selection"
  /\ InSeq("app_api", config.selected)
  /\ InSeq("ghost", config.excluded)
  /\ Len(config.selected) + Len(config.excluded) >= 3

\* C12: the event log never holds more than the configured
\* max_log_entries events, and its entries are in insertion order.
C12_EventLogBounded ==
  /\ Len(event_log) <= config.max_log_entries
  /\ \A i \in 1..(Len(event_log) - 1) :
       event_log[i + 1].restart_count = event_log[i].restart_count + 1

\* C13 as claimed: get_stable_identifier returns monitoring.id when that
\* label is present, else project_service when both compose labels exist,
\* else the name.
C13_StableIdentifierPriority ==
  call.op = "get_stable_identifier" =>
    LET l == call.info.labels
    IN call.id =
         IF l["monitoring.id"] # None THEN l["monitoring.id"]
         ELSE IF /\ l["com.docker.compose.project"] # None
                 /\ l["com.docker.compose.service"] # None
              THEN l["com.docker.compose.project"] \o "_" \o
                   l["com.docker.compose.service"]
         ELSE call.info.name

\* C13 amended: get_stable_identifier returns monitoring.id when that
\* label is present; without it, project_service when both compose labels
\* are present and non-empty; in every other case the container name.
C13_StableIdentifierNonEmpty ==
  call.op = "get_stable_identifier" =>
    LET l == call.info.labels
        p == l["com.docker.compose.project"]
        sv == l["com.docker.compose.service"]
        compose == p # None /\ p # "" /\ sv # None /\ sv # ""
    IN /\ l["monitoring.id"] # None => call.id = l["monitoring.id"]
       /\ (l["monitoring.id"] = None /\ compose)
            => call.id = p \o "_" \o sv
       /\ (l["monitoring.id"] = None /\ ~compose)
            => call.id = call.info.name

\* C13 witness: a container without monitoring.id whose compose project
\* label is empty has been identified by its name
C13_Witness ==
  /\ call.op = "get_stable_identifier"
  /\ call.info.labels["monitoring.id"] = None
  /\ call.info.labels["com.docker.compose.project"] = ""
  /\ call.info.labels["com.docker.compose.service"] = "api"
  /\ call.id = "api-1"

\* C14: in mode on-failure with respect_manual_stop, the evaluator returns
\* needs_restart = false for a container that is exited, stopped or dead
\* with exit code 0, whatever the custom probe, the native health and the
\* external monitor say.
C14_ManualStopRespected ==
  (/\ call.op = "evaluate_container_health"
   /\ call.restart.mode = "on-failure"
   /\ call.restart.respect_manual_stop
   /\ call.state.status \in {"exited", "stopped", "dead"}
   /\ call.state.exit_code = 0)
    => ~call.needs_restart

\* C14 witness: a cleanly stopped container has been evaluated while its
\* custom probe failed and the external monitor reported it down
C14_Witness ==
  /\ call.op = "evaluate_container_health"
  /\ call.restart.mode = "on-failure"
  /\ call.restart.respect_manual_stop
  /\ call.state.status = "exited"
  /\ call.state.exit_code = 0
  /\ call.custom = "fail"
  /\ call.external
  /\ ~call.needs_restart

\* the container of the call is in list under its stable id, runtime id,
\* short id, name or compose service
CallListed(list) ==
  LET info == call.info
      service == info.labels["com.docker.compose.service"]
  IN \/ InSeq(get_stable_identifier(info), list)
     \/ InSeq(info.full_id, list)
     \/ InSeq(info.id, list)
     \/ InSeq(info.name, list)
     \/ (service # None /\ InSeq(service, list))

\* the container of the call is in list under an identifier that a
\* re-creation keeps: stable id, name or compose service
CallListedStably(list) ==
  LET info == call.info
      service == info.labels["com.docker.compose.service"]
  IN \/ InSeq(get_stable_identifier(info), list)
     \/ InSeq(info.name, list)
     \/ (service # None /\ InSeq(service, list))

\* C15: a container that is in excluded under its stable id, runtime id,
\* short id, name or compose service is not monitored, also when it is
\* selected, carries the enrollment label or include_all is set.
C15_ExclusionWins ==
  (call.op = "should_monitor_container" /\ CallListed(call.cfg.excluded))
    => ~call.monitored

\* C15 witness: a container excluded under its short id was tested while
\* selected under its stable id, labelled and with include_all set
C15_Witness ==
  /\ call.op = "should_monitor_container"
  /\ InSeq(call.info.id, call.cfg.excluded)
  /\ InSeq(get_stable_identifier(call.info), call.cfg.selected)
  /\ call.cfg.include_all
  /\ HasEnrollmentLabel(call.cfg, call.info.labels)
  /\ ~call.monitored

\* C16 as claimed: a container that is not excluded and is in selected
\* under any of its identifiers is monitored, and is still monitored
\* after its re-creation under a new runtime id.
C16_SelectedMonitored ==
  (/\ call.op = "should_monitor_container"
   /\ ~CallListed(call.cfg.excluded)
   /\ CallListed(call.cfg.selected))
    => (call.monitored /\ call.monitored_recreated)

\* C16 amended: a container that is not excluded and is in selected under
\* any of its identifiers is monitored whatever the labels and filters;
\* after its re-creation it is still monitored when the selected entry is
\* its stable id, its name or its compose service.
C16_SelectedMonitoredStably ==
  /\ (/\ call.op = "should_monitor_container"
      /\ ~CallListed(call.cfg.excluded)
      /\ CallListed(call.cfg.selected))
       => call.monitored
  /\ (/\ call.op = "should_monitor_container"
      /\ ~CallListed(call.cfg.excluded)
      /\ CallListedStably(call.cfg.selected))
       => call.monitored_recreated

\* C16 witness: a container selected under its stable id, without the
\* enrollment label and with a name blacklist that matches it, was found
\* monitored before and after its re-creation
C16_Witness ==
  /\ call.op = "should_monitor_container"
  /\ InSeq(get_stable_identifier(call.info), call.cfg.selected)
  /\ ~call.cfg.include_all
  /\ ~HasEnrollmentLabel(call.cfg, call.info.labels)
  /\ call.cfg.blacklist_names # <<>>
  /\ call.monitored
  /\ call.monitored_recreated

\* number of auto_monitor events in the log for the stable identifier id
AutoMonitorEvents(id) ==
  Cardinality({i \in DOMAIN event_log :
                 /\ event_log[i].event_type = "auto_monitor"
                 /\ event_log[i].stable_id = id})

\* C17: enrollment happens once per stable identifier: whatever start
\* events, startup scans and daemon restarts follow, the log never holds a
\* second auto_monitor event for the same stable identifier
C17_EnrollmentOnce ==
  \A s \in StableIds :
    AutoMonitorEvents(SelectionStableId(get_container_info(s, 1))) <= 1

\* C18: the listener and the scan enroll a container, selected and excluded
\* being empty, exactly when its labels carry the configured enrollment
\* label, whatever key and value are configured
C18_EnrollsOnConfiguredLabel ==
  call.op = "enroll" =>
    /\ call.listener <=> HasEnrollmentLabel(call.cfg, call.info.labels)
    /\ call.scan <=> HasEnrollmentLabel(call.cfg, call.info.labels)

\* C19: whatever window is asked for, the restart count of a stable
\* identifier is the number of restarts recorded for it since its last
\* clear, across re-creations of the container
C19_CountKeyedByStableId ==
  \A s \in StableIds : \A w \in Windows :
    get_restart_count(config, s, w) = recorded[s].n

\* two restarts are counted, one before and one after a re-creation
C19_Witness ==
  \E s \in StableIds :
    /\ recorded[s].n = 2
    /\ {1, 2} \subseteq recorded[s].gens
    /\ get_restart_count(config, s, 60) = 2

\* C20: a second quarantine of the same id, or a second release, leaves
\* the quarantined set as the first left it, and the release of an id that
\* is not quarantined leaves the set as it was
C20_QuarantineIdempotent ==
  /\ call.op = "quarantine_container" =>
       quarantine_container(call.after, call.id) = call.after
  /\ call.op = "unquarantine_container" =>
       /\ unquarantine_container(call.after, call.id) = call.after
       /\ call.id \notin call.before => call.after = call.before

\* an id that is not quarantined is released while another one is
C20_Witness ==
  /\ call.op = "unquarantine_container"
  /\ call.id \notin call.before
  /\ call.before # {}

C22_ExportImportIdentity ==
  call.op = "export_import" =>
    /\ ~call.raised
    /\ call.after = call.before

\* C23: an import that raises leaves the configuration and the custom
\* health checks as they were before the call
C23_FailedImportChangesNothing ==
  (call.op = "import_config" /\ call.raised) =>
    call.after = call.before

\* the containers checked so far in this sweep, in the order of the checks
CheckedIds == [i \in DOMAIN round.checked |-> round.checked[i].id]

\* C24: whatever checks raise, the containers are checked in list order
\* and none is left out when the sweep ends, and the loop is then ready
\* for its next sweep
C24_SweepSurvivesFailure ==
  /\ round.pc = "checking" => CheckedIds \o round.left = SweepList
  /\ (round.pc = "sleeping" /\ round.checked # <<>>) =>
       CheckedIds = SweepList
  /\ round.pc \in {"checking", "sleeping"}

\* a sweep whose first check raised has checked every container, after a
\* sweep in which a check raised as well
C24_Witness ==
  /\ round.pc = "sleeping"
  /\ Len(round.checked) = Len(SweepList)
  /\ round.checked[1].outcome = "raised"
  /\ \E i \in DOMAIN round.last : round.last[i].outcome = "raised"

\* the sweep resumes after a restart RPC that failed
FailedRestartRecorded ==
  /\ sweep.pc = "rpc_done"
  /\ ~sweep.success
  /\ sweep'.pc = "notify"

\* C25: a restart that the runtime failed to carry out leaves the restart
\* counter of the stable identifier as it was
C25_FailedRestartKeepsCount ==
  [][FailedRestartRecorded =>
       get_total_restart_count(config', sweep.cur) =
         get_total_restart_count(config, sweep.cur)]_vars

\* the sweep drops a positive verdict because the container is in cooldown
VerdictDroppedInCooldown ==
  /\ sweep.pc = "eval"
  /\ sweep' = Returned(sweep, "yes")
  /\ InCooldown(last_restart, sweep.cur, config.restart)

\* the sweep skips the check of a container because of maintenance mode
CheckSkippedInMaintenance ==
  /\ sweep.pc = "idle"
  /\ maintenance
  /\ sweep'.pc = "idle"
  /\ sweep' # sweep

\* an event with status failure is appended to the log
FailureLogged ==
  /\ event_log' # event_log
  /\ event_log' # <<>>
  /\ event_log'[Len(event_log')].status = "failure"

\* C26: a verdict dropped in cooldown and a check skipped in maintenance
\* mode leave counter, last restart time, backoff delay, quarantined set
\* and event log as they were; an event with status failure is logged
\* only when a restart RPC has come back failed
C26_SkippedRestartLeavesNoTrace ==
  [][/\ (VerdictDroppedInCooldown \/ CheckSkippedInMaintenance) =>
          /\ config'.restart_counts = config.restart_counts
          /\ UNCHANGED <<last_restart, backoff_delays, quarantined,
                         event_log>>
     /\ FailureLogged =>
          \/ sweep.pc = "rpc_done" /\ ~sweep.success
          \/ uk.pc = "rpc"]_vars

\* a positive verdict has just been dropped in cooldown, after a restart
\* that was logged
C26_Witness ==
  /\ sweep.pc = "idle"
  /\ sweep.needs = "yes"
  /\ sweep.cur \in StableIds
  /\ InCooldown(last_restart, sweep.cur, config.restart)
  /\ event_log # <<>>

\* C27: each persisted file holds a whole document at every instant: a
\* reader, or a daemon restarted after a crash during a write, never finds
\* a file empty or partly written.
C27_FilesAlwaysWhole ==
  \A n \in FileNames : files.disk[n].text = "complete"

\* the evaluator was called and its exit-status rule applied: the container
\* is exited, stopped or dead and the mode is on-failure or both
ExitRuleApplied ==
  /\ call.op = "evaluate_container_health"
  /\ call.state.status \in {"exited", "stopped", "dead"}
  /\ call.restart.mode \in {"on-failure", "both"}

\* C28: in mode health or both, when a custom probe is configured and
\* passes, the evaluator does not return needs_restart = true because the
\* native health is unhealthy (the exit-status rule and the external
\* monitor giving no reason of their own).
C28_PassingProbeOverridesNative ==
  (/\ call.op = "evaluate_container_health"
   /\ call.restart.mode \in {"health", "both"}
   /\ call.custom = "pass"
   /\ call.state.health = "unhealthy"
   /\ ~ExitRuleApplied
   /\ ~call.external)
    => ~call.needs_restart

\* C29: for a container that is exited, stopped or dead the evaluator in
\* mode on-failure or both returns needs_restart = true unless the exit
\* code is 0 and respect_manual_stop is set; in mode health the exit status
\* alone (no failing probe, no unhealthy native health, no external
\* verdict) never yields true; and a starting container yields false in
\* every mode.
C29_ExitStatusRule ==
  call.op = "evaluate_container_health" =>
    /\ ExitRuleApplied =>
         (call.needs_restart <=>
            ~(call.state.exit_code = 0 /\ call.restart.respect_manual_stop))
    /\ (/\ call.state.status \in {"exited", "stopped", "dead"}
        /\ call.restart.mode = "health"
        /\ call.custom # "fail"
        /\ call.state.health # "unhealthy"
        /\ ~call.external) => ~call.needs_restart
    /\ call.state.status = "starting" => ~call.needs_restart

\* C29 witness: a container that exited with code 0 has been evaluated in
\* mode both without respect_manual_stop and is to be restarted, although
\* its probe passes and the external monitor is quiet
C29_Witness ==
  /\ ExitRuleApplied
  /\ call.restart.mode = "both"
  /\ ~call.restart.respect_manual_stop
  /\ call.state.exit_code = 0
  /\ call.custom = "pass"
  /\ ~call.external
  /\ call.needs_restart

\* C30: the poller makes a restart RPC for a stable id only while the
\* integration is enabled, auto_restart_on_down is set, the stable id has a
\* mapping, and the status just fetched for its monitor is down (0).
C30_RestartOnlyOnMappedDown ==
  [][\A s \in StableIds :
       PollerIssues(s) =>
         /\ config.uk_enabled
         /\ config.auto_restart_on_down
         /\ s \in config.uk_mappings
         /\ uk'.status = 0]_vars

\* the backoff sleep of the sweep ends in this step
BackoffSlept == sweep.pc = "backoff" /\ sweep'.pc = "rpc"

\* C31: with backoff enabled and a configuration that does not change, the
\* delay slept before a restart is initial_seconds on the first attempt and
\* on the attempt after a successful restart or an auto-release, and
\* floor(previous delay * multiplier) on the attempt after a failed one;
\* with multiplier 1 it is always initial_seconds, and it is never below
\* initial_seconds.
C31_BackoffDelays ==
  [][BackoffSlept =>
       LET last == attempts[sweep.cur]
           r == config.restart
       IN /\ last.outcome \in {"none", "success", "released"}
               => sweep.delay = r.initial_seconds
          /\ last.outcome = "failure"
               => sweep.delay = (last.delay * r.mult_num) \div r.mult_den
          /\ r.mult_num = r.mult_den => sweep.delay = r.initial_seconds
          /\ sweep.delay >= r.initial_seconds]_vars

\* C31 witness: with multiplier 1.5 the sweep sleeps before the restart
\* that follows a failed one, for a delay that the floor has cut
C31_Witness ==
  /\ sweep.pc = "backoff"
  /\ attempts[sweep.cur].outcome = "failure"
  /\ config.restart.mult_num = 3
  /\ config.restart.mult_den = 2
  /\ sweep.delay * 2 # attempts[sweep.cur].delay * 3
  /\ sweep.delay = (attempts[sweep.cur].delay * 3) \div 2

\* the container of the call carries the label key = value
CallLabelled(key, value) ==
  call.info.labels[key] # None /\ call.info.labels[key] = value

\* C32: for a container that is in neither list, the selection filter
\* answers true exactly when include_all is set or the container carries
\* the enrollment label, its name matches no blacklisted pattern and, if
\* there is a whitelist of names, one of its patterns, none of its labels
\* is a blacklisted pair and, if there is a whitelist of labels, one of its
\* labels is a whitelisted pair.
C32_FiltersDecide ==
  (/\ call.op = "should_monitor_container"
   /\ ~CallListed(call.cfg.excluded)
   /\ ~CallListed(call.cfg.selected))
    => (call.monitored <=>
          /\ \/ call.cfg.include_all
             \/ CallLabelled(call.cfg.label_key, call.cfg.label_value)
          /\ \A i \in DOMAIN call.cfg.blacklist_names :
               ~FnMatch(call.info.name, call.cfg.blacklist_names[i])
          /\ \/ Len(call.cfg.whitelist_names) = 0
             \/ \E i \in DOMAIN call.cfg.whitelist_names :
                  FnMatch(call.info.name, call.cfg.whitelist_names[i])
          /\ \A i \in DOMAIN call.cfg.blacklist_labels :
               ~CallLabelled(call.cfg.blacklist_labels[i].key,
                             call.cfg.blacklist_labels[i].value)
          /\ \/ Len(call.cfg.whitelist_labels) = 0
             \/ \E i \in DOMAIN call.cfg.whitelist_labels :
                  CallLabelled(call.cfg.whitelist_labels[i].key,
                               call.cfg.whitelist_labels[i].value))

\* C32 witness: a container in neither list, without include_all, was
\* found monitored on its enrollment label while a whitelist of names and
\* a whitelist of labels were set
C32_Witness ==
  /\ call.op = "should_monitor_container"
  /\ ~CallListed(call.cfg.excluded)
  /\ ~CallListed(call.cfg.selected)
  /\ ~call.cfg.include_all
  /\ Len(call.cfg.whitelist_names) > 0
  /\ Len(call.cfg.whitelist_labels) > 0
  /\ call.monitored

\* C33: for every name and label set, the stable identifier that the
\* start-event listener, the startup scan and the selection endpoint
\* compute is the one get_stable_identifier returns to the sweep.
C33_OneKeyPerContainer ==
  call.op = "get_stable_identifier" =>
    /\ call.id = SelectionStableId(call.info)
    /\ AutoMonitorEvent(call.info).stable_id = call.id

\* the key under which the enrollment paths store container s
EnrollmentKey(s) ==
  SelectionStableId(get_container_info(s, containers[s].gen))

\* an auto_monitor event for the stable identifier id is logged in this step
AutoMonitorLogged(id) ==
  /\ event_log' # event_log
  /\ event_log' # <<>>
  /\ event_log'[Len(event_log')].event_type = "auto_monitor"
  /\ event_log'[Len(event_log')].stable_id = id

\* C34: a step of the listener or of the scan, taken while the stable
\* identifier of a container is in excluded, does not add it to selected,
\* leaves excluded as it is and logs no auto_monitor event for it.
C34_ExclusionBeatsEnrollment ==
  [][\A s \in StableIds :
       (InSeq(EnrollmentKey(s), config.excluded) /\ call' = call) =>
         /\ InSeq(EnrollmentKey(s), config'.selected)
              => InSeq(EnrollmentKey(s), config.selected)
         /\ config'.excluded = config.excluded
         /\ ~AutoMonitorLogged(EnrollmentKey(s))]_vars

\* the startup scan returns in this step
ScanCompletes == scan.pc = "scanning" /\ scan'.pc = "listening"

\* C35: what the operator excluded or selected while the scan was in
\* progress is still excluded or selected when the scan has completed: the
\* scan's write-back takes no identifier out of either list.
C35_SelectionSurvivesScan ==
  [][ScanCompletes =>
       \A x \in SelectionIds \cup {EnrollmentKey(s) : s \in StableIds} :
         /\ InSeq(x, config.excluded) => InSeq(x, config'.excluded)
         /\ InSeq(x, config.selected) => InSeq(x, config'.selected)]_vars

\* C36: at the instant the sweep or the poller issues a restart RPC for a
\* container, none of the container's identifiers (stable id, runtime id,
\* short id, name, compose service) is in excluded
C36_NoRestartWhenExcluded ==
  [][\A s \in StableIds :
       (SweepIssues(s) \/ PollerIssues(s)) =>
         ~Listed(get_container_info(s, containers[s].gen),
                 config.excluded)]_vars

\* the restart of s is recorded in this step: the counter goes up by one,
\* the time of the last restart is now, and one restart event is logged
\* whose restart_count is the stored counter
RestartRecorded(s) ==
  /\ config'.restart_counts[s] = config.restart_counts[s] + 1
  /\ last_restart'[s] = 0
  /\ event_log' # <<>>
  /\ event_log' # event_log
  /\ LET e == event_log'[Len(event_log')]
     IN /\ e.event_type = "restart"
        /\ e.stable_id = s
        /\ e.restart_count = get_total_restart_count(config', s)

\* C37: a restart RPC issued by _handle_container_restart is followed by
\* its record: the sweep leaves the RPC only by the worker thread's
\* answer and then by the step that counts it, sets the time of the last
\* restart and logs the restart event, also when the engine is stopped
C37_IssuedRestartIsRecorded ==
  [][\A s \in StableIds :
       (sweep.cur = s /\ sweep.pc \in {"rpc", "rpc_done"} /\ sweep' # sweep) =>
         \/ sweep.pc = "rpc" /\ sweep'.pc = "rpc_done"
         \/ sweep.pc = "rpc_done" /\ RestartRecorded(s)]_vars

\* C38: with maintenance off and the sweep running fairly, a container
\* that every evaluation reports as needing restart is quarantined after
\* at most max_restarts restarts, and from then on it stays quarantined
\* and no restart RPC is issued for it
C38_RestartStormsEnd ==
  \A s \in StableIds :
    /\ [](config.restart_counts[s] <= config.restart.max_restarts)
    /\ <>(s \in quarantined)
    /\ [](s \in quarantined =>
           [](s \in quarantined /\ ~SweepRpcInFlight(s)
                                /\ ~PollerRpcInFlight(s)))

\* a container quarantined after max_restarts restarts has come up, was
\* evaluated again, found failing and left in quarantine
C38_Witness ==
  \E s \in StableIds :
    /\ s \in quarantined
    /\ config.restart.max_restarts >= 2
    /\ config.restart_counts[s] = config.restart.max_restarts
    /\ containers[s].state.status = "running"
    /\ sweep.pc = "idle"
    /\ sweep.cur = s
    /\ sweep.qid = s
    /\ sweep.needs = "yes"

====
